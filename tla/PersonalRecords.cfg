SPECIFICATION Spec
CONSTANTS
    NoOrg = noorg
    u1 = u1
    u2 = u2
    padded = padded
    o1 = o1
    c1 = c1
    c2 = c2
    w1 = w1
    w2 = w2
    e1 = e1
    e2 = e2
    i1 = i1
    x1 = x1
    Procs = {p1, p2}
    Users = {u1, u2}
    Spellings = {u1, u2, padded}
    Trim <- Trimmed
    Bundles <- MCBundles
    Orgs = {o1}
    PushIds = {w1, w2}
    ApiKeys = {k1}
    IdentityKeys = {i1, i2}
    WebhookKeys = {h1}
    Endpoints = {e1, e2}
    Externals = {x1}
    Connections = {c1, c2}
    ConnectionOwner <- Owners
    Requests = {q1, q2}
    Provenances = {v1, v2}
    None = none
    InitialRows <- Populations
    MaxWrites = 2
CHECK_DEADLOCK FALSE
INVARIANTS FencedNameKeepsNothing FencedExternalsStayUnbound PlansAgree
PROPERTIES CallersStayInPolicy CleanupIsAllOrNothing
SYMMETRY Symmetry
