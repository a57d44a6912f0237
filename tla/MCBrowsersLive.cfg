CONSTANTS
    u1 = u1
    Users = {u1, u2}
    Registered = {u1, u2}
    Passwords = {p1, p2}
    InitialPassword = p1
    Admins = {u2}
    Ops = {a1}
    Idle = Idle
    Requests = {r1}
    MaxTokens = 2
    MayAbort = FALSE
    Browsers = {b1}
    Home <- OnlyFirst
    Nobody = Nobody
SPECIFICATION FairBrowserSpec
PROPERTIES ImplementsSessionFamilies RequestsEnd ReuseEndsAllSessions InactiveRefreshEndsSessions
