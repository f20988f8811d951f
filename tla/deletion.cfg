CONSTANTS
    Invitation = inv
    Consents = {k1}
    Submissions = {s1}
    Uploads = {u1}
    Sessions = {i1}
    Chunks = {c1}
    MaxReceipts = 1
SPECIFICATION Spec
INVARIANTS
    VerifiedIsGone
    
CHECK_DEADLOCK FALSE
