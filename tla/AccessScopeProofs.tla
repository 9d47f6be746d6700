------------------------- MODULE AccessScopeProofs -------------------------
(***************************************************************************)
(* The lists and columns of AccessScopes never admit more than the         *)
(* policies they were compiled from, for every bundle, table and row.      *)
(***************************************************************************)
EXTENDS AccessScopes, TLAPS

\* What is in a denied list is denied by a policy, and what a policy denies
\* is in a list (applyDataScope loses no denial).
LEMMA DenialIsListed ==
    ASSUME NEW b, NEW row, NEW s \in Denied(b), Covers(b, s, row)
    PROVE  \/ AccessScope(b).deniedAll
           \/ row.user \in AccessScope(b).deniedUsers
           \/ row.org \in AccessScope(b).deniedOrgs
<1>1. CASE s = "all"
    BY <1>1 DEF AccessScope
<1>2. CASE s = "owner"
    <2>1. row.user \in ScopeUsers(b, s)
        BY <1>2 DEF Covers, ScopeUsers
    <2> QED
        BY <2>1 DEF AccessScope
<1>3. CASE s \in {"org", "org_child", "target_org"}
    <2>1. row.org \in ScopeOrgs(b, s)
        BY <1>3 DEF Covers, ScopeOrgs
    <2> QED
        BY <2>1 DEF AccessScope
<1> QED
    BY <1>1, <1>2, <1>3 DEF Covers

\* A row that the allow lists name is covered by a scope that allows.
LEMMA AllowanceIsGranted ==
    ASSUME NEW b, NEW row,
           \/ AccessScope(b).unrestricted
           \/ row.user \in AccessScope(b).allowedUsers
           \/ row.org \in AccessScope(b).allowedOrgs
    PROVE  \E s \in Allowed(b) : Covers(b, s, row)
<1>1. CASE AccessScope(b).unrestricted
    BY <1>1 DEF AccessScope, Covers
<1>2. CASE row.user \in AccessScope(b).allowedUsers
    <2>1. PICK s \in Allowed(b) : row.user \in ScopeUsers(b, s)
        BY <1>2 DEF AccessScope
    <2> QED
        BY <2>1 DEF ScopeUsers, Covers
<1>3. CASE row.org \in AccessScope(b).allowedOrgs
    <2>1. PICK s \in Allowed(b) : row.org \in ScopeOrgs(b, s)
        BY <1>3 DEF AccessScope
    <2>2. s \in {"org", "org_child", "target_org"}
        BY <2>1 DEF ScopeOrgs
    <2>3. Covers(b, s, row)
        BY <2>1, <2>2 DEF ScopeOrgs, Covers
    <2> QED
        BY <2>3
<1> QED
    BY <1>1, <1>2, <1>3

\* scopedWhere admits a row only if the policies permit it, whatever the owner
\* columns that the table lacks would have said: `real` is the row with its
\* true owner, `row` agrees with it on the columns the table has.
THEOREM VisibleIsPermitted ==
    ASSUME NEW b, NEW cols, NEW row, NEW real,
           "user" \in cols => real.user = row.user,
           "org" \in cols => real.org = row.org,
           Visible(AccessScope(b), cols, row)
    PROVE  Permitted(b, real)
<1>1. "plain" \notin b.guardrails
    BY DEF Visible, AccessScope
<1>2. \E s \in Allowed(b) : Covers(b, s, real)
    BY AllowanceIsGranted DEF Visible
<1>3. ASSUME NEW s \in Denied(b), Covers(b, s, real)
      PROVE FALSE
    <2>1. \/ AccessScope(b).deniedAll
          \/ real.user \in AccessScope(b).deniedUsers
          \/ real.org \in AccessScope(b).deniedOrgs
        BY <1>3, DenialIsListed
    <2> QED
        BY <2>1 DEF Visible
<1> QED
    BY <1>1, <1>2, <1>3 DEF Permitted

\* A caller that passes requireAllDataScope is permitted every row.
THEOREM AllDataPermitsEverything ==
    ASSUME NEW b, NEW row, AllData(AccessScope(b))
    PROVE  Permitted(b, row)
<1>1. Visible(AccessScope(b), {}, row)
    BY DEF AllData, Visible
<1> QED
    BY <1>1, VisibleIsPermitted

\* ConnectionAccountAccess opens personal accounts only to a caller whose
\* policies permit rows it owns, in whichever organization, and workspace
\* accounts only to one whose policies permit every row that is not its own.
THEOREM AccountAccessIsPermitted ==
    ASSUME NEW b, NEW row
    PROVE  /\ PersonalAccountAccess(AccessScope(b)) /\ row.user = b.user => Permitted(b, row)
           /\ WorkspaceAccountAccess(AccessScope(b)) /\ row.user # b.user => Permitted(b, row)
<1>1. AccessScope(b).actor = b.user
    BY DEF AccessScope
<1>2. ASSUME PersonalAccountAccess(AccessScope(b)), row.user = b.user
      PROVE  Permitted(b, row)
    <2>1. Visible(AccessScope(b), {"user"}, row)
        BY <1>1, <1>2 DEF PersonalAccountAccess, Visible
    <2> QED
        BY <2>1, VisibleIsPermitted
<1>3. ASSUME WorkspaceAccountAccess(AccessScope(b)), row.user # b.user
      PROVE  Permitted(b, row)
    <2>1. row.user \notin AccessScope(b).deniedUsers
        BY <1>3 DEF AccessScope, ScopeUsers
    <2>2. Visible(AccessScope(b), {"user"}, row)
        BY <1>3, <2>1 DEF WorkspaceAccountAccess, Visible
    <2> QED
        BY <2>2, VisibleIsPermitted
<1> QED
    BY <1>2, <1>3

=============================================================================
