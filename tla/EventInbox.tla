----------------------------- MODULE EventInbox -----------------------------
(***************************************************************************)
(* Inbound events: AcceptWebhook, ReplayEvent and ProcessDueEvents of      *)
(* OperationsStore over _integration_events, _integration_webhook_nonces   *)
(* and _integration_event_mapping_intents, and the handoff to Runtime.     *)
(*                                                                         *)
(* A process is one goroutine: it serves webhook requests, operators'      *)
(* replays and worker rounds in any order.  One action is one statement or *)
(* transaction sent to the database, or one Runtime call.  An event stands *)
(* for its sender too: an erasure concerns the sender of one event.        *)
(***************************************************************************)
EXTENDS Naturals, FiniteSets

CONSTANTS
    Procs,         \* goroutines of all replicas
    Events,        \* provider events (workspace, provider, external id)
    Nonces,        \* security nonces a delivery may carry
    NoNonce,       \* a delivery without one
    Mappings,      \* event mapping keys
    NoMapping,     \* no enabled mapping matches
    Erasable,      \* events whose sender may be erased
    AttemptLimit,  \* failures after which an event is dead-lettered (5 in the code)
    MaxToken,      \* bound: claims of one event
    MaxRequests,   \* bound: webhook requests
    MaxReplays,    \* bound: operator replays
    MaxRemaps,     \* bound: changes of the mapping definitions
    MaxFaults      \* bound: crashes, uncounted errors and leases outlived

ASSUME InboxAssumption ==
    /\ AttemptLimit \in Nat \ {0}
    /\ Events # {}
    /\ Erasable \subseteq Events
    /\ NoNonce \notin Nonces
    /\ NoMapping \notin Mappings
    /\ MaxToken \in Nat /\ MaxRequests \in Nat /\ MaxReplays \in Nat
    /\ MaxRemaps \in Nat /\ MaxFaults \in Nat

VARIABLES
    event,      \* event[e]: the event row
    nonces,     \* nonces stored
    intent,     \* intent[e]: status of the mapping intent row
    mapping,    \* the mapping that matches, now
    external,   \* events whose sender is fenced (connection, external, subject)
    frozen,     \* events whose row is fenced
    started,    \* Runtime: idempotency keys it has executed
    pc,         \* pc[p]: the next step of p
    cand,       \* cand[p]: what p has read
    used,       \* how much of each bound is spent
    inline,     \* inline[e]: webhook requests that went on to process e (history)
    failures    \* failures[e]: counted failures of e since it was accepted (history)

tables == <<event, nonces, intent, mapping, external, frozen, started>>
history == <<inline, failures>>
vars == <<tables, pc, cand, used, history>>

-----------------------------------------------------------------------------
(* Types *)

Statuses == {"absent", "received", "processing", "processed", "ignored",
             "failed", "dead_letter", "erasing", "cancelled"}
\* lease_expires_at: empty, in the future, in the past.
Leases == {"none", "held", "expired"}
EventRow == [status: Statuses, attempt: Nat, token: Nat, lease: Leases]
NoEvent == [status |-> "absent", attempt |-> 0, token |-> 0, lease |-> "none"]

IntentStatuses == {"none", "completed", "failed", "erasing", "cancelled"}

Steps == {"idle", "nonce", "accept", "insert", "claim", "load", "map", "guard",
          "trigger", "lookup", "insertIntent", "updateIntent", "finish"}

Cand == [event: Events, nonce: Nonces \cup {NoNonce}, status: Statuses,
         token: Nat, attempt: Nat, mapping: Mappings \cup {NoMapping},
         result: {"processed", "ignored", "failed"}, claimed: BOOLEAN]

Bounds == [requests: 0..MaxRequests, replays: 0..MaxReplays,
           remaps: 0..MaxRemaps, faults: 0..MaxFaults]

\* The key Runtime deduplicates on is the event's id and the mapping's key.
IdempotencyKey(c) == [event |-> c.event, mapping |-> c.mapping]

TypeOK ==
    /\ event \in [Events -> EventRow]
    /\ nonces \in SUBSET Nonces
    /\ intent \in [Events -> IntentStatuses]
    /\ mapping \in Mappings \cup {NoMapping}
    /\ external \in SUBSET Erasable
    /\ frozen \in SUBSET external
    /\ started \in SUBSET [event: Events, mapping: Mappings]
    /\ pc \in [Procs -> Steps]
    /\ cand \in [Procs -> Cand]
    /\ used \in Bounds
    /\ inline \in [Events -> Nat]
    /\ failures \in [Events -> Nat]

NoCand == [event |-> CHOOSE e \in Events : TRUE, nonce |-> NoNonce,
           status |-> "absent", token |-> 0, attempt |-> 0,
           mapping |-> NoMapping, result |-> "ignored", claimed |-> FALSE]

Init ==
    /\ event = [e \in Events |-> NoEvent]
    /\ nonces = {}
    /\ intent = [e \in Events |-> "none"]
    /\ mapping \in Mappings \cup {NoMapping}
    /\ external = {}
    /\ frozen = {}
    /\ started = {}
    /\ pc = [p \in Procs |-> "idle"]
    /\ cand = [p \in Procs |-> NoCand]
    /\ used = [requests |-> 0, replays |-> 0, remaps |-> 0, faults |-> 0]
    /\ inline = [e \in Events |-> 0]
    /\ failures = [e \in Events |-> 0]

Goto(p, step) == pc' = [pc EXCEPT ![p] = step]
Keep(p, c) == cand' = [cand EXCEPT ![p] = c]
Proceed(p, step) == Goto(p, step) /\ UNCHANGED cand
Return(p) == Goto(p, "idle") /\ Keep(p, NoCand)

\* subjectRowWriteAllowed in an update's condition; the variant leaves it out.
AnyWriteAllowed(e) == TRUE
RowWriteAllowed(e) == e \notin frozen

-----------------------------------------------------------------------------
(* AcceptWebhook.  What fails before the first write (an unknown connection,  *)
(* a signature that does not verify, a challenge) changes nothing and is     *)
(* left out.                                                                 *)

\* The request is verified and guardInboundSubject finds no fence on its sender.
ReceiveWebhook(p) ==
    \E e \in Events, n \in Nonces \cup {NoNonce} :
        /\ pc[p] = "idle"
        /\ used.requests < MaxRequests
        /\ used' = [used EXCEPT !.requests = @ + 1]
        /\ \/ /\ e \in external
              /\ UNCHANGED <<pc, cand>>
           \/ /\ e \notin external
              /\ Goto(p, IF n = NoNonce THEN "accept" ELSE "nonce")
              /\ Keep(p, [NoCand EXCEPT !.event = e, !.nonce = n])
        /\ UNCHANGED <<tables, inline, failures>>

\* acceptWebhookNonce inserts the nonce; a second insert is an error.
AcceptNonce(p) ==
    /\ pc[p] = "nonce"
    /\ \/ /\ cand[p].nonce \in nonces
          /\ Return(p)
          /\ UNCHANGED nonces
       \/ /\ cand[p].nonce \notin nonces
          /\ nonces' = nonces \cup {cand[p].nonce}
          /\ Proceed(p, "accept")
    /\ UNCHANGED <<event, intent, mapping, external, frozen, started, used,
                   inline, failures>>

\* acceptEvent checks the fences of the row and the connection, then looks for
\* the event; the row's fence comes with its sender's.
AcceptEvent(p) ==
    LET e == cand[p].event IN
    /\ pc[p] = "accept"
    /\ \/ e \in external /\ Return(p)
       \/ e \notin external /\ event[e].status # "absent" /\ Return(p)
       \/ /\ e \notin external /\ event[e].status = "absent"
          /\ Proceed(p, "insert")
    /\ UNCHANGED <<tables, used, inline, failures>>

\* The request whose insert conflicts answers with the row that is there; in
\* the variant it carries on as if it had inserted it.
ConflictProcesses(p) ==
    /\ Proceed(p, "load")
    /\ inline' = [inline EXCEPT ![cand[p].event] = @ + 1]
ConflictAnswers(p) == Return(p) /\ UNCHANGED inline

InsertEvent(p) ==
    LET e == cand[p].event IN
    /\ pc[p] = "insert"
    /\ \/ /\ event[e].status = "absent"
          /\ event' = [event EXCEPT ![e] = [NoEvent EXCEPT !.status = "received"]]
          /\ inline' = [inline EXCEPT ![e] = @ + 1]
          /\ Proceed(p, "load")
       \/ /\ event[e].status # "absent"
          /\ ConflictAnswers(p)
          /\ UNCHANGED event
    /\ UNCHANGED <<nonces, intent, mapping, external, frozen, started, used, failures>>

-----------------------------------------------------------------------------
(* ProcessDueEvents *)

\* The scan: received and failed events whose retry time has come, and
\* processing ones without a live lease; the variant forgets those.
DueUnleased(row) == row.status \in {"received", "failed"}
Due(row) == \/ row.status \in {"received", "failed"}
            \/ row.status = "processing" /\ row.lease \in {"none", "expired"}

ScanEvent(p) ==
    \E e \in Events :
        /\ pc[p] = "idle"
        /\ Due(event[e])
        /\ event[e].token < MaxToken
        /\ Goto(p, "claim")
        /\ Keep(p, [NoCand EXCEPT !.event = e, !.status = event[e].status,
                                  !.token = event[e].token])
        /\ UNCHANGED <<tables, used, history>>

\* The claim compares status and token with the scanned row; the variant
\* compares the status only.
SameStatus(row, c) == row.status = c.status
SameClaim(row, c) == row.status = c.status /\ row.token = c.token

ClaimEvent(p) ==
    LET e == cand[p].event IN
    /\ pc[p] = "claim"
    /\ \/ /\ RowWriteAllowed(e) /\ SameClaim(event[e], cand[p])
          /\ event' = [event EXCEPT ![e] =
                [@ EXCEPT !.status = "processing", !.lease = "held",
                          !.token = cand[p].token + 1]]
          /\ Goto(p, "load")
          /\ Keep(p, [cand[p] EXCEPT !.token = @ + 1, !.claimed = TRUE])
       \/ /\ ~(RowWriteAllowed(e) /\ SameClaim(event[e], cand[p]))
          /\ Return(p)
          /\ UNCHANGED event
    /\ UNCHANGED <<nonces, intent, mapping, external, frozen, started, used, history>>

\* A worker's or a webhook's GetEvent before processEvent.
LoadEvent(p) ==
    /\ pc[p] = "load"
    /\ Goto(p, "map")
    /\ Keep(p, [cand[p] EXCEPT !.attempt = event[cand[p].event].attempt])
    /\ UNCHANGED <<tables, used, history>>

\* ReplayEvent's transaction: whatever its status, the event is received again;
\* its attempts, its lease and its token stay.  A fenced row is an error.
ReplayEvent(p) ==
    \E e \in Events :
        /\ pc[p] = "idle"
        /\ event[e].status # "absent" /\ RowWriteAllowed(e)
        /\ used.replays < MaxReplays
        /\ used' = [used EXCEPT !.replays = @ + 1]
        /\ event' = [event EXCEPT ![e].status = "received"]
        /\ Goto(p, "map")
        /\ Keep(p, [NoCand EXCEPT !.event = e, !.attempt = event[e].attempt])
        /\ UNCHANGED <<nonces, intent, mapping, external, frozen, started, history>>

-----------------------------------------------------------------------------
(* processEvent *)

\* The mapping is looked up and applied.  Without one the event is ignored; no
\* sink, an invalid payload or an unmapped identity fail it; an error of the
\* lookup or of the payload's JSON returns and leaves the row as it is.
MapEvent(p) ==
    /\ pc[p] = "map"
    /\ \/ /\ mapping = NoMapping
          /\ Goto(p, "finish")
          /\ Keep(p, [cand[p] EXCEPT !.result = "ignored"])
          /\ UNCHANGED used
       \/ /\ mapping # NoMapping
          /\ Goto(p, "finish")
          /\ Keep(p, [cand[p] EXCEPT !.result = "failed"])
          /\ UNCHANGED used
       \/ /\ mapping # NoMapping
          /\ Goto(p, "guard")
          /\ Keep(p, [cand[p] EXCEPT !.mapping = mapping])
          /\ UNCHANGED used
       \/ /\ used.faults < MaxFaults
          /\ used' = [used EXCEPT !.faults = @ + 1]
          /\ Return(p)
    /\ UNCHANGED <<tables, history>>

\* guardSubjectWrite before the handoff: the row's fence, and the subject's
\* when the principal was resolved.
GuardEvent(p) ==
    LET e == cand[p].event IN
    /\ pc[p] = "guard"
    /\ \/ e \in external /\ Return(p)
       \/ e \notin frozen /\ Proceed(p, "trigger")
    /\ UNCHANGED <<tables, used, history>>

\* What an answered or failed handoff is recorded as; the variant takes an
\* answer that was lost for a success.
LostIsProcessed(answered) == "processed"
HandoffResult(answered) == IF answered THEN "processed" ELSE "failed"

\* The Runtime executes a key once and answers, or fails before or after.
Trigger(p) ==
    /\ pc[p] = "trigger"
    /\ \E answered \in BOOLEAN :
          /\ \/ started' = started \cup {IdempotencyKey(cand[p])}
             \/ ~answered /\ UNCHANGED started
          /\ Keep(p, [cand[p] EXCEPT !.result = HandoffResult(answered)])
    /\ Goto(p, "lookup")
    /\ UNCHANGED <<event, nonces, intent, mapping, external, frozen, used, history>>

\* persistExecutionReceipt looks the intent up, then inserts or updates it.
LookupIntent(p) ==
    /\ pc[p] = "lookup"
    /\ Proceed(p, IF intent[cand[p].event] = "none" THEN "insertIntent" ELSE "updateIntent")
    /\ UNCHANGED <<tables, used, history>>

\* The status of the stored receipt.
ReceiptStatus(p) == IF cand[p].result = "processed" THEN "completed" ELSE "failed"

\* A lost race is an error: processEvent returns and the row stays as it is.
InsertIntent(p) ==
    LET e == cand[p].event IN
    /\ pc[p] = "insertIntent"
    /\ \/ /\ intent[e] = "none"
          /\ intent' = [intent EXCEPT ![e] = ReceiptStatus(p)]
          /\ Proceed(p, "finish")
       \/ /\ intent[e] # "none"
          /\ Return(p)
          /\ UNCHANGED intent
    /\ UNCHANGED <<event, nonces, mapping, external, frozen, started, used, history>>

\* The intent's row is fenced if it was there when the erasure was prepared.
UpdateIntent(p) ==
    LET e == cand[p].event IN
    /\ pc[p] = "updateIntent"
    /\ intent' = IF intent[e] \in {"erasing", "cancelled"} THEN intent
                 ELSE [intent EXCEPT ![e] = ReceiptStatus(p)]
    /\ Proceed(p, "finish")
    /\ UNCHANGED <<event, nonces, mapping, external, frozen, started, used, history>>

\* The status after the n-th failure; the variant gives up one too early.
FailedStatusEarly(n) == IF n + 1 >= AttemptLimit THEN "dead_letter" ELSE "failed"
FailedStatus(n) == IF n >= AttemptLimit THEN "dead_letter" ELSE "failed"

\* updateEventStatus writes by id: neither status, token nor lease is compared,
\* and the attempt is counted from the row that was read.
Finished(row, c) ==
    IF c.result = "failed"
    THEN [row EXCEPT !.status = FailedStatus(c.attempt + 1),
                     !.attempt = c.attempt + 1, !.lease = "none"]
    ELSE [row EXCEPT !.status = c.result, !.lease = "none"]

FinishEvent(p) ==
    LET e == cand[p].event IN
    /\ pc[p] = "finish"
    /\ event' = IF RowWriteAllowed(e)
                THEN [event EXCEPT ![e] = Finished(@, cand[p])]
                ELSE event
    /\ failures' = IF cand[p].result = "failed"
                   THEN [failures EXCEPT ![e] = @ + 1] ELSE failures
    /\ Return(p)
    /\ UNCHANGED <<nonces, intent, mapping, external, frozen, started, used, inline>>

-----------------------------------------------------------------------------
(* The rest of the system *)

\* The application's mapping definitions are published again.
PublishMapping ==
    /\ used.remaps < MaxRemaps
    /\ used' = [used EXCEPT !.remaps = @ + 1]
    /\ mapping' \in (Mappings \cup {NoMapping}) \ {mapping}
    /\ UNCHANGED <<event, nonces, intent, external, frozen, started, pc, cand, history>>

\* Time passes a lease, also one whose holder is still at work (30 s, never
\* renewed): that one counts as a fault.
Holders(e) == {p \in Procs : /\ pc[p] # "idle"
                             /\ cand[p].claimed
                             /\ cand[p].event = e
                             /\ cand[p].token = event[e].token}

LeaseExpires ==
    \E e \in Events :
        /\ event[e].lease = "held"
        /\ \/ /\ Holders(e) = {}
              /\ UNCHANGED used
           \/ /\ Holders(e) # {} /\ used.faults < MaxFaults
              /\ used' = [used EXCEPT !.faults = @ + 1]
        /\ event' = [event EXCEPT ![e].lease = "expired"]
        /\ UNCHANGED <<nonces, intent, mapping, external, frozen, started, pc, cand, history>>

CrashProcess(p) ==
    /\ pc[p] # "idle"
    /\ used.faults < MaxFaults
    /\ used' = [used EXCEPT !.faults = @ + 1]
    /\ Return(p)
    /\ UNCHANGED <<tables, history>>

\* PrepareSubjectErasure of an event's sender: refused while the event is
\* processing, it fences sender, event and intent and advances the token.
PrepareErasure ==
    \E e \in Erasable \ external :
        /\ event[e].status # "processing"
        /\ external' = external \cup {e}
        /\ IF event[e].status = "absent" THEN UNCHANGED <<event, intent, frozen>>
           ELSE /\ frozen' = frozen \cup {e}
                /\ event' = [event EXCEPT ![e] =
                      [@ EXCEPT !.status = "erasing", !.token = event[e].token + 1,
                                !.lease = "none"]]
                /\ intent' = IF intent[e] = "none" THEN intent
                             ELSE [intent EXCEPT ![e] = "erasing"]
        /\ UNCHANGED <<nonces, mapping, started, pc, cand, used, history>>

\* ErasePreparedSubject clears the rows of the plan.
EraseSubject ==
    \E e \in frozen :
        /\ event[e].status = "erasing"
        /\ event' = [event EXCEPT ![e] =
              [@ EXCEPT !.status = "cancelled", !.lease = "none"]]
        /\ intent' = IF intent[e] = "erasing"
                     THEN [intent EXCEPT ![e] = "cancelled"] ELSE intent
        /\ UNCHANGED <<nonces, mapping, external, frozen, started, pc, cand, used, history>>

Work(p) ==
    \/ AcceptNonce(p) \/ AcceptEvent(p) \/ InsertEvent(p)
    \/ ClaimEvent(p) \/ LoadEvent(p) \/ MapEvent(p) \/ GuardEvent(p)
    \/ Trigger(p) \/ LookupIntent(p) \/ InsertIntent(p) \/ UpdateIntent(p)
    \/ FinishEvent(p)

Next ==
    \/ \E p \in Procs : ReceiveWebhook(p) \/ ScanEvent(p) \/ ReplayEvent(p)
    \/ \E p \in Procs : Work(p)
    \/ \E p \in Procs : CrashProcess(p)
    \/ PublishMapping
    \/ LeaseExpires
    \/ PrepareErasure
    \/ EraseSubject

Spec == Init /\ [][Next]_vars

\* A goroutine finishes what it began, time passes, and the worker's rounds,
\* started every few seconds, come back to a due event.
FairSpec ==
    /\ Spec
    /\ \A p \in Procs : WF_vars(Work(p)) /\ SF_vars(ScanEvent(p))
    /\ WF_vars(LeaseExpires)

-----------------------------------------------------------------------------
(* Properties *)

\* However often a provider repeats an event, and however its requests race,
\* at most one of them processes it.
IngressProcessesOnce == \A e \in Events : inline[e] <= 1

\* An event is given up only after as many counted failures as the limit says:
\* late writers may undercount its attempts, never overcount them.
DeadLetterAfterLimit ==
    \A e \in Events :
        /\ event[e].attempt <= failures[e]
        /\ event[e].status = "dead_letter" => failures[e] >= AttemptLimit

\* An event is processed only when the Runtime has executed it and a receipt
\* is stored.
ProcessedWasStarted ==
    \A e \in Events :
        event[e].status = "processed" =>
            /\ intent[e] # "none"
            /\ \E x \in started : x.event = e

\* Two processes never work under the same claim of an event.
ClaimsAreExclusive ==
    \A p, q \in Procs :
        /\ p # q
        /\ pc[p] # "idle" /\ cand[p].claimed
        /\ pc[q] # "idle" /\ cand[q].claimed
        => ~(cand[p].event = cand[q].event /\ cand[p].token = cand[q].token)

\* After the erasure fenced an event only the erasure writes its row, whatever
\* was at work on it.
FrozenEventsStayFrozen ==
    [][\A e \in frozen :
          event'[e] = event[e] \/ event'[e].status = "cancelled"]_vars

\* An accepted event is eventually processed, ignored, given up or erased,
\* through crashes, lost answers, expired leases and lost races.
EventsSettle ==
    \A e \in Events :
        event[e].status \in {"received", "processing", "failed"} ~>
            event[e].status \in {"processed", "ignored", "dead_letter", "erasing", "cancelled"}

=============================================================================
