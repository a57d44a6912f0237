CONSTANTS
    Users = {u1, u2}
    Registered = {u1}
    Passwords = {p1, p2}
    InitialPassword = p1
    Admins = {u1, u2}
    Ops = {a1, a2}
    Idle = Idle
    Viewers = {v1}
    Limits = {2}
    InitialLog = 1
    MaxLog = 3
    NoFilter = NoFilter
    NotRead = NotRead
SPECIFICATION ReportsSpec
SYMMETRY Interchangeable
INVARIANTS ReportsTypeOK OldestFirstWalkIsExact NewestFirstWalkMissesOnlyIfTorn SummaryAddsUp
PROPERTIES LastAdminLostOnlyByOverlap DeletedStaysOut RegistrationNeverOverwrites
