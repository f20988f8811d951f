SPECIFICATION Spec
CONSTANTS
    Uploads = {u1, u2, u3}
    MaxRecorders = 2
    MaxCaptured = 3
    MaxNow = 3
    MaxFailures = 1
INVARIANTS
    ChunksInCaptureOrder
    NothingIsDropped
SYMMETRY Symmetric
CHECK_DEADLOCK FALSE
