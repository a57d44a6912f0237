CONSTANTS
    Users = {u1}
    Registered = {u1}
    Passwords = {p1, p2}
    InitialPassword = p1
    Admins = {}
    Ops = {}
    Idle = Idle
    Requests = {r1, r2}
    MaxTokens = 3
    MayAbort = FALSE
SPECIFICATION Spec
INVARIANT NoSessionOutlivesRevokeAll
