SPECIFICATION Spec
CONSTANTS
    User = {u}
    Flow = {f1, f2}
    Exchange = {x1, x2}
    Scope = {read, write}
    GrantCap = 2
    TokenCap = 3
    StampCap = 1
SYMMETRY Symmetry
INVARIANTS
    CodeExchangedOnce
    ReplayEndsAll
    SecuredFlowsEnd
PROPERTY
    RevokedFamilyRests
CHECK_DEADLOCK FALSE
