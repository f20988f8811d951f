SPECIFICATION Spec
CONSTANTS
    Workers = {w1, w2}
    Criteria = {c1, c2}
    Second = 2
    MaxQuestions = 2
    MaxChunks = 3
    MaxTime = 5
    MaxInterruptions = 2
INVARIANTS
    
    EvidenceIsRecorded
    AnswersDoNotShareMedia
SYMMETRY Symmetric
CHECK_DEADLOCK FALSE
