SPECIFICATION Spec
CONSTANTS
    p1 = p1
    p2 = p2
    Procs <- MCProcs
    TaskMaxRetries = 2
    IndexMaxRetries = 2
    MaxFaults = 1
SYMMETRY Symmetry
ACTION_CONSTRAINT RoomForAll
CONSTRAINT TwoFlushes
INVARIANTS
    TypeOK
    ReadyIsIndexed
    OnlyTheVerdict
    AnnouncedUnlessCut
PROPERTY KeepsPromise
CHECK_DEADLOCK FALSE
