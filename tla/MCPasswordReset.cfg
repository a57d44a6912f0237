CONSTANTS
    Users = {u1, u2}
    Registered = {u1}
    Passwords = {p1, p2}
    InitialPassword = p1
    Admins = {}
    Ops = {}
    Idle = Idle
    Requests = {r1, r2}
    MaxTokens = 2
    MayAbort = TRUE
    Jobs = {j1}
    MaxLinks = 2
SPECIFICATION ResetSpec
INVARIANTS ResetTypeOK OneUsableLink ChangedByOwnLinks OnlySparedSessionsOutlive
