SPECIFICATION MCSpec
CONSTANTS
    Credential = {c1, c2}
    Exchange = {x1}
    Rotation = {r1}
    Call = {k1, k2, k3}
    Limit = 2
    Ttl = 4
    Timeout = 2
    WaitCap = 4
SYMMETRY Symmetry
INVARIANTS
    SlotsSound
PROPERTY
    RevokedPrincipalRests
CHECK_DEADLOCK FALSE
