SPECIFICATION Spec
CONSTANTS
    Workers = {w1, w2}
    Collectors = {c1, c2}
    Requests = {q, r}
    Members = {u}
    Owners = {o, p}
    HasFacts = {1}
    Shared = {2}
    N = 2
    Attached = {2}
    Overlap = 1
    MaxOps = 2
    MaxChanges = 1
    MaxFaults = 1
CHECK_DEADLOCK FALSE
INVARIANTS
    TypeOK Stored Withheld CompletedIsGone
PROPERTIES
    GetsThere
