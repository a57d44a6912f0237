CONSTANTS
    u1 = u1
    r1 = r1
    p1 = p1
    n1 = n1
    Users = {u1}
    Roles = {r1, r2}
    Permissions = {p1, p2}
    Names = {n1, n2}
    Manage = n1
    InitialAssignments <- OneHolder
    InitialGrants <- OneGrant
    InitialName <- OneName
    Changes = {a1}
    Readers = {q1, q2}
    MayAbort = FALSE
    RedisFails = FALSE
    NoRow = NoRow
    Idle = Idle
    Empty = Empty
SPECIFICATION GuardsSpec
SYMMETRY Interchangeable
INVARIANTS GuardsTypeOK StaleOnlyByRace
PROPERTIES SyncReplacesAll VerdictsWereTrue
