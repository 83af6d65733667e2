SPECIFICATION Spec
CONSTANTS
    p1 = p1
    p2 = p2
    Procs = {p1}
    TaskMaxRetries = 2
    IndexMaxRetries = 2
    MaxFaults = 1
INVARIANT FailsForAReason
CHECK_DEADLOCK FALSE
