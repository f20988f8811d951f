SPECIFICATION FairSpec
CONSTANTS
    AnswerIds = {a1, a2}
    Fragments = {f1}
    MaxQuestions = 2
    MaxChunks = 2
    MaxFragments = 2
    MaxPauseAt = 5
    Faults = {"transcriber", "storage", "completion", "strategy", "process"}
INVARIANTS
    CheckpointsSound
    VerifiedRecordingHasNoGap
    CompletionExact
PROPERTIES
    ImplementsRecord
    CommittedOnlyAdvances
    InterviewCompletes
