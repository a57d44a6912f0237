CONSTANTS
    Users = {u1, u2}
    Registered = {u1}
    Passwords = {p1}
    InitialPassword = p1
    Admins = {u1}
    Ops = {a1}
    Idle = Idle
    Jobs = {j1, j2}
    MaxLinks = 3
SPECIFICATION VerificationSpec
INVARIANTS VerificationTypeOK ConsumedOnce LinksBoundedByOverlap MarkedByOwnLinks VerifiedAgainOnlyByOverlap
