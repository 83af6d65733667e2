SPECIFICATION Spec
CONSTANTS
    p1 = p1
    p2 = p2
    r1 = r1
    r2 = r2
    Drivers <- MCProcesses
    Owners <- MCProcesses
    Owner <- MCOwner
    Requests <- MCRequests
    N = 1
    Writes = {1}
    MaxAttempts = 2
    MaxModelCalls = 2
    MaxApprovals = 2
    MaxClicks = 2
    MaxCrashes = 1
INVARIANTS
    TypeOK
    OneDriver
    OneRequestId
    ExecutedAsApproved
    AttemptsBounded
    SuccessAccountsForWrites
SYMMETRY MCSymmetry
PROPERTY NoRepeatAfterAnswer
CHECK_DEADLOCK FALSE
