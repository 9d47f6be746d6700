------------------------- MODULE MCPersonalRecords -------------------------
(* An instance of PersonalRecords for TLC. *)
EXTENDS PersonalRecords, TLC

CONSTANTS u1, u2, padded, o1, c1, c2, w1, w2, e1, e2, i1, x1

\* Surrounding spaces, which requiredOwnerValue trims.
Trimmed == [s \in Spellings |-> IF s = padded THEN u1 ELSE s]

\* c1 is a personal connection, c2 belongs to the workspace.
Owners == c1 :> u1 @@ c2 :> None

Policy(effect, scopes) == [effect |-> effect, scopes |-> scopes, predicate |-> scopes \ {"all"}]
Bundle(user, policies) ==
    [user |-> user, org |-> o1, orgScope |-> {o1}, supportScope |-> {},
     grants |-> {"allow"}, policies |-> policies, guardrails |-> {}]

\* A user of its own rows, an administrator, one without its own rows, one
\* denied an organization, a member of an organization, one that a guardrail
\* stops, and one that is not authorized.
MCBundles ==
    {Bundle(u1, {Policy("allow", {"owner"})}),
     Bundle(u2, {Policy("allow", {"all"})}),
     Bundle(u2, {Policy("allow", {"all"}), Policy("deny", {"owner"})}),
     Bundle(u2, {Policy("allow", {"all"}), Policy("deny", {"org"})}),
     Bundle(u1, {Policy("allow", {"org", "org_child"})}),
     [Bundle(u1, {Policy("allow", {"all"})}) EXCEPT !.guardrails = {"plain"}],
     Bundle(u1, {Policy("allow", {"all", "owner"})})}

\* Empty tables, or two users' browsers, one key, one identity, one webhook.
Row(owner, ref, expiry) ==
    [status |-> "active", owner |-> owner, spelled |-> owner, ref |-> ref, expiry |-> expiry]

Populations ==
    {[k \in Slots |-> NoRow],
     [k \in Slots |->
        CASE k = w1 -> Row(u1, e1, "later")
          [] k = w2 -> Row(u2, e2, "later")
          [] k \in ApiKeys -> Row(u1, None, "never")
          [] k = i1 -> Row(u1, x1, "never")
          [] k \in WebhookKeys -> Row(None, c1, "never")
          [] OTHER -> NoRow]}

NoRows == {[k \in Slots |-> NoRow]}

Symmetry == Permutations(Procs) \cup Permutations(Requests) \cup Permutations(Provenances)

=============================================================================
