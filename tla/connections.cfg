SPECIFICATION FairSpec
CONSTANTS
    c1 = c1
    c2 = c2
    p1 = p1
    p2 = p2
    Connections <- TwoConnections
    Processes <- TwoProcesses
    Home <- Apart
    MaxQuestions = 2
    MaxPauseAt = 6
    MaxTurns = 6
INVARIANTS
    CommittedRowsAgree

    
    
    
