SPECIFICATION FairSpec
CONSTANTS
    p1 = p1
    p2 = p2
    r1 = r1
    r2 = r2
    Drivers <- MCProcess
    Owners <- MCProcess
    Owner <- MCProcessOwner
    Requests <- MCRequest
    N = 1
    Writes = {}
    MaxAttempts = 1
    MaxModelCalls = 2
    MaxApprovals = 0
    MaxClicks = 1
    MaxCrashes = 0
PROPERTY TerminalIsFinal
CHECK_DEADLOCK FALSE
