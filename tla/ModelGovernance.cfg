SPECIFICATION GoverningAndCalling
CONSTANTS
    Model = {m1}
    Dimension = {d1}
    Profile = {p1, p2}
    Admin = {a1, a2}
    Caller = {c1}
    VersionCap = 3
    EditCap = 2
    Gateway = {g1}
    Secret = {s1, s2}
    Url = {u1, u2}
    Credential = {k1, k2}
    Process = {api, worker}
    Inputs = 2
    MaxChunks = 1
    KeyCap = 2
SYMMETRY Symmetry
INVARIANTS
    RoutingSound
    GatewaysSound
PROPERTY
    PublishedImmutable
CHECK_DEADLOCK FALSE
