SPECIFICATION FairSpec
CONSTANTS
    p1 = p1
    p2 = p2
    r1 = r1
    r2 = r2
    Drivers <- MCProcesses
    Owners <- MCProcesses
    Owner <- MCOwner
    Requests <- MCRequest
    N = 2
    Writes = {2}
    MaxAttempts = 1
    MaxModelCalls = 3
    MaxApprovals = 2
    MaxClicks = 1
    MaxCrashes = 1
PROPERTY Settles
CHECK_DEADLOCK FALSE
