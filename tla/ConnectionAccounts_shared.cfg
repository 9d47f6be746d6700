SPECIFICATION Spec
CONSTANTS
    p1 = p1
    p2 = p2
    Procs = {p1}
    c1 = c1
    c2 = c2
    s1 = s1
    s2 = s2
    Connections = {c1, c2}
    Sessions = {c1}
    Secrets = {s1, s2}
    TokenOf <- Tokens
    Users = {u1}
    EnvRef = EnvRef
    Shared = Shared
    None = None
    SingleConnection = TRUE
INVARIANT SharedCredentialsArePreserved
