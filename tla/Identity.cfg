SPECIFICATION MCSpec
CONSTANTS
    u1 = u1
    u2 = u2
    r1 = r1
    r2 = r2
    User = {u1, u2, u3}
    Subject = {u1}
    Attempt = {a1, a2, a3}
    Request = {r1, r2, r3, r4}
    StampCap = 3
    Duty <- MCDuty
    Nobody = Nobody
SYMMETRY Symmetry
INVARIANTS
    ASuperRemains
    SecuredSessionsEnd
    UsedOnce
CHECK_DEADLOCK FALSE
