SPECIFICATION FairSpec
CONSTANTS
    Workers = {w1, w2}
    MaxEvents = 2
    MaxMessages = 4
    MaxFaults = 1
INVARIANTS
    TypeOK
    SentWasPublished
    CarriedUnlessTurnedAway
PROPERTY Woken
