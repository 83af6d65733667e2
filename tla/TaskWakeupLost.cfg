SPECIFICATION FairSpec
CONSTANTS
    Workers = {w1, w2}
    MaxEvents = 2
    MaxMessages = 4
    MaxFaults = 1
INVARIANT Carried
CHECK_DEADLOCK FALSE
