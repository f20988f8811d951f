SPECIFICATION ServiceSpec
CONSTANTS
    Callers = {t1, t2}
    Keys = {k1, k2}
    Criteria = {c1}
    ModelReplies = {q1, q2, "unavailable"}
    AnswerCosts = {1, 3}
    FixedCost = 1
    MaxTokens = 5
    MaxTurns = 4
SYMMETRY Symmetry
INVARIANTS
    EachAnswerGetsItsQuestion
    ResumeTellsTheSession
CHECK_DEADLOCK FALSE
