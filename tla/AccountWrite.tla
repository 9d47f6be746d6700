---------------------------- MODULE AccountWrite ----------------------------
(***************************************************************************)
(* What a host that writes to a connected account may rely on, whatever    *)
(* the requests, retries, crashes, reconcilers and erasures behind it do.  *)
(* For every write identity there is one claim, with one payload; under    *)
(* the claim the provider is called at most once; the outcome is settled   *)
(* at most once and tells the truth about the effect; an erasure waits for *)
(* the outcome; and every reply is true when it is given and stays true.   *)
(* An identity whose claim was abandoned stays claimed or called for ever: *)
(* it is reported as uncertain and never called again.                     *)
(***************************************************************************)
CONSTANTS Writes, Contents, NoContent

VARIABLES
    phase,    \* phase[i]: how far write i is
    content,  \* content[i]: the payload i was claimed with
    effect,   \* effect[i]: the provider applied i
    told      \* told[i]: the outcomes callers of i were given

vars == <<phase, content, effect, told>>

Settled == {"succeeded", "failed", "uncertain"}

Init ==
    /\ phase = [i \in Writes |-> "free"]
    /\ content = [i \in Writes |-> NoContent]
    /\ effect = [i \in Writes |-> FALSE]
    /\ told = [i \in Writes |-> {}]

Claim(i) ==
    /\ phase[i] = "free"
    /\ phase' = [phase EXCEPT ![i] = "claimed"]
    /\ \E c \in Contents : content' = [content EXCEPT ![i] = c]
    /\ UNCHANGED <<effect, told>>

\* The one call: from here on the effect is decided.
Invoke(i) ==
    /\ phase[i] = "claimed"
    /\ phase' = [phase EXCEPT ![i] = "called"]
    /\ \E applied \in BOOLEAN : effect' = [effect EXCEPT ![i] = applied]
    /\ UNCHANGED <<content, told>>

\* What may be said of a write: of one that was never called, only that it
\* failed; of one that was called, what the provider did or that it is unknown.
True(i, o) ==
    CASE o = "succeeded" -> effect[i]
      [] o = "failed" -> ~effect[i]
      [] OTHER -> TRUE

Settle(i) ==
    \E o \in Settled :
        /\ \/ phase[i] = "claimed" /\ o = "failed"
           \/ phase[i] = "called"
        /\ True(i, o)
        /\ phase' = [phase EXCEPT ![i] = o]
        /\ UNCHANGED <<content, effect, told>>

\* An erasure takes settled writes of its subject together.
Erase(S) ==
    /\ \A i \in S : phase[i] \in Settled
    /\ phase' = [i \in Writes |-> IF i \in S THEN "erased" ELSE phase[i]]
    /\ content' = [i \in Writes |-> IF i \in S THEN NoContent ELSE content[i]]
    /\ UNCHANGED <<effect, told>>

\* A caller learns the outcome of a settled write, that an open one is
\* uncertain, or that it was not found when it asked.
Tell(i) ==
    \E o \in Settled \cup {"not_found"} :
        /\ o \in {"succeeded", "failed"} => phase[i] \in {o, "erased"}
        /\ o = "uncertain" => phase[i] # "free"
        /\ True(i, o)
        /\ told' = [told EXCEPT ![i] = @ \cup {o}]
        /\ UNCHANGED <<phase, content, effect>>

Next ==
    \/ \E i \in Writes : Claim(i) \/ Invoke(i) \/ Settle(i) \/ Tell(i)
    \/ \E S \in SUBSET Writes : Erase(S)

Spec == Init /\ [][Next]_vars
=============================================================================
