SPECIFICATION Spec
CONSTANTS
    Requests = {r1, r2}
    Positions = {p1}
    Keys = {k1, k2}
    Limit <- MCLimit
INVARIANTS
    VersionNumbersDense
    
    InvitedUnderPublished
    ConsentedHasConsent
SYMMETRY Symmetric
CHECK_DEADLOCK FALSE
