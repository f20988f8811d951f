SPECIFICATION RoomSpec
CONSTANTS
    AnswerIds = {1, 2, 3, 4, 5, 6, 7, 8}
    Fragments = {1, 2}
    MaxQuestions = 2
    MaxChunks = 1
    MaxFragments = 1
    MaxPauseAt = 20
    Faults = {}
    MaxMishaps = 1
PROPERTIES
    RoomGoesOn
CHECK_DEADLOCK FALSE
