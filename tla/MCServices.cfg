SPECIFICATION Spec
CONSTANTS
    Workers = {w1, w2}
    Grants = {g, h}
    Users = {u, v}
    Creator = u
    Askers = {x}
    Collecting = {v}
    ChatTexts = {m}
    RequestIds = {q, r}
    MaxGen = 3
    N = 3
    Attached = {1}
    PageSize = 1
    MaxOps = 2
    MaxCalls = 3
    MaxTokens = 4
    MaxRows = 2
    MaxEvents = 1
    MaxFaults = 1
CHECK_DEADLOCK FALSE
INVARIANTS
    TypeOK RowFitsVault AnswersFitRow Sharing Vouched Sessions Organized Requested
    Remembered Filled Planned Shown
