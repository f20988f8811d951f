SPECIFICATION FairSpec
CONSTANTS
    Processes = {p1, p2}
    Requests = {r1, r2}
    Keys = {file, url}
    Files = {file}
    MaxSubmissions = 3
    Faults = {"dependency", "content", "commit", "process"}
INVARIANTS
    CommittedIsAnalyzed
    OncePerKey
    ReadinessIsTrue
PROPERTIES
    RequestsEnd
CHECK_DEADLOCK FALSE
