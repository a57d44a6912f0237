CONSTANTS
    n1 = n1
    n2 = n2
    Users = {u1}
    Roles = {r1}
    Permissions = {p1, p2}
    Names = {n1, n2}
    InitialAssignments <- NoRows
    InitialGrants <- NoRows
    InitialName <- AnyName
    InitialSuperadmin = NoRow
    Baseline <- Both
    SeedAdmin = u1
    Seeders = {s1}
    Changes = {a1}
    Readers = {q1}
    MayAbort = TRUE
    RedisFails = TRUE
    NoRow = NoRow
    Idle = Idle
    Empty = Empty
SPECIFICATION SeedSpec
INVARIANTS SeedTypeOK SeedCompletes
PROPERTY StalenessEnds
