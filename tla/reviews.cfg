CONSTANTS
    Processes = {n1, n2}
    Requests = {r1, r2, r3}
    Keys = {k1, k2}
    Payloads <- MCPayloads
    NoRequest = none
SPECIFICATION FairSpec
INVARIANTS
    NamesOneReview
    ToldAlike

    
CHECK_DEADLOCK FALSE
