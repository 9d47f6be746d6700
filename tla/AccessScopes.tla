---------------------------- MODULE AccessScopes ----------------------------
(***************************************************************************)
(* From the access bundle of a principal to the rows a statement touches.  *)
(* AuthorizeDataAccess compiles the policies of one permission into lists  *)
(* of users and organizations; scopedWhere turns the lists into a WHERE    *)
(* clause over the owner columns a table has. A bundle here is what it     *)
(* says about one permission key of one workspace:                         *)
(*   grants      the effects of the function grants on the key             *)
(*   policies    the data policies: an effect, data scopes, and the data   *)
(*               scopes that their predicate spells out                    *)
(*   guardrails  "plain" for a denial, "conditional" for one with a        *)
(*               predicate of its own                                      *)
(***************************************************************************)

CONSTANT NoOrg  \* a blank organization

DataScopes == {"all", "owner", "org", "org_child", "target_org"}

\* Each scope has its own predicate; "all" has none and stands alone.
PredicateMatches(policy) ==
    /\ policy.predicate = policy.scopes \ {"all"}
    /\ "all" \in policy.scopes => policy.scopes = {"all"}

\* The ids that a scope adds to the lists.
ScopeUsers(b, s) == IF s = "owner" THEN {b.user} ELSE {}

ScopeOrgs(b, s) ==
    (CASE s = "org" -> {b.org}
       [] s = "org_child" -> b.orgScope
       [] s = "target_org" -> b.supportScope
       [] OTHER -> {}) \ {NoOrg}

\* The scopes of all policies with one effect; whatever is no denial allows.
Allowed(b) == UNION {pol.scopes : pol \in {q \in b.policies : q.effect # "deny"}}
Denied(b) == UNION {pol.scopes : pol \in {q \in b.policies : q.effect = "deny"}}

AccessScope(b) ==
    [actor |-> b.user,
     unrestricted |-> "all" \in Allowed(b),
     allowedUsers |-> UNION {ScopeUsers(b, s) : s \in Allowed(b)},
     allowedOrgs |-> UNION {ScopeOrgs(b, s) : s \in Allowed(b)},
     deniedAll |-> "all" \in Denied(b) \/ "plain" \in b.guardrails,
     deniedUsers |-> UNION {ScopeUsers(b, s) : s \in Denied(b)},
     deniedOrgs |-> UNION {ScopeOrgs(b, s) : s \in Denied(b)}]

Valid(scope) == scope.unrestricted \/ scope.allowedUsers # {} \/ scope.allowedOrgs # {}

\* AuthorizeDataAccess returns AccessScope(b) for these bundles and fails on
\* every other.
Authorized(b) ==
    /\ "allow" \in b.grants /\ "deny" \notin b.grants
    /\ b.policies # {}
    /\ \A pol \in b.policies :
        pol.scopes # {} /\ pol.scopes \subseteq DataScopes /\ PredicateMatches(pol)
    /\ Valid(AccessScope(b))
    /\ "conditional" \notin b.guardrails

\* Variant: denied lists without a column are skipped.
VisibleFailOpen(scope, cols, row) ==
    /\ ~scope.deniedAll
    /\ \/ scope.unrestricted
       \/ "user" \in cols /\ row.user \in scope.allowedUsers
       \/ "org" \in cols /\ row.org \in scope.allowedOrgs
    /\ "user" \in cols => row.user \notin scope.deniedUsers
    /\ "org" \in cols => row.org \notin scope.deniedOrgs

\* scopedWhere on a table with the owner columns cols: a denial that has no
\* column to look at hides every row.
Visible(scope, cols, row) ==
    /\ ~scope.deniedAll
    /\ "user" \notin cols => scope.deniedUsers = {}
    /\ "org" \notin cols => scope.deniedOrgs = {}
    /\ \/ scope.unrestricted
       \/ "user" \in cols /\ row.user \in scope.allowedUsers
       \/ "org" \in cols /\ row.org \in scope.allowedOrgs
    /\ row.user \notin scope.deniedUsers
    /\ row.org \notin scope.deniedOrgs

\* requireAllDataScope, and the check of authorizeAction before the handler.
AllData(scope) ==
    /\ scope.unrestricted /\ ~scope.deniedAll
    /\ scope.deniedUsers = {} /\ scope.deniedOrgs = {}

\* The check of a web push upsert, which has no row to look at yet.
ScopeAllowsUser(scope, user) ==
    /\ ~scope.deniedAll
    /\ user \notin scope.deniedUsers
    /\ scope.unrestricted \/ user \in scope.allowedUsers

\* ConnectionAccountAccess: personal and workspace accounts that a scope opens.
PersonalAccountAccess(scope) ==
    /\ Valid(scope) /\ ~scope.deniedAll /\ scope.deniedOrgs = {}
    /\ scope.unrestricted \/ scope.actor \in scope.allowedUsers
    /\ scope.actor \notin scope.deniedUsers

WorkspaceAccountAccess(scope) ==
    Valid(scope) /\ ~scope.deniedAll /\ scope.deniedOrgs = {} /\ scope.unrestricted

-----------------------------------------------------------------------------
(* What the policies mean, without lists and columns. *)

Covers(b, s, row) ==
    CASE s = "all" -> TRUE
      [] s = "owner" -> row.user = b.user
      [] s = "org" -> row.org = b.org /\ b.org # NoOrg
      [] s = "org_child" -> row.org \in b.orgScope \ {NoOrg}
      [] s = "target_org" -> row.org \in b.supportScope \ {NoOrg}
      [] OTHER -> FALSE

Permitted(b, row) ==
    /\ "plain" \notin b.guardrails
    /\ \E s \in Allowed(b) : Covers(b, s, row)
    /\ \A s \in Denied(b) : ~Covers(b, s, row)

=============================================================================
