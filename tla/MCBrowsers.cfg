CONSTANTS
    u1 = u1
    Users = {u1}
    Registered = {u1}
    Passwords = {p1}
    InitialPassword = p1
    Admins = {}
    Ops = {}
    Idle = Idle
    Requests = {r1, r2}
    MaxTokens = 3
    MayAbort = TRUE
    Browsers = {b1, b2}
    Home <- OnlyFirst
    Nobody = Nobody
SPECIFICATION BrowserSpec
SYMMETRY Interchangeable
INVARIANTS BrowserTypeOK RevokeAllIsFinal RotationChain AnsweredRotationSpends StaleCookiesHaveAReason SignedOutSessionsEnd
