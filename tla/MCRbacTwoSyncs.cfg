CONSTANTS
    u1 = u1
    r1 = r1
    p1 = p1
    n1 = n1
    Users = {u1}
    Roles = {r1}
    Permissions = {p1, p2}
    Names = {n1, n2}
    InitialAssignments <- OneHolder
    InitialGrants <- OneGrant
    InitialName <- OneName
    Changes = {a1, a2}
    Readers = {}
    MayAbort = FALSE
    RedisFails = FALSE
    NoRow = NoRow
    Idle = Idle
    Empty = Empty
SPECIFICATION Spec
PROPERTY SyncReplacesAll
