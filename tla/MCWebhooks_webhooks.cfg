\* One event for two URLs and up to four replays and cancels, two at a time.
SPECIFICATION Spec
CONSTANTS
    Null = Null
    EventIds <- OneEvent
    Urls <- TwoUrls
    Emitters = {e1}
    Replayers = {r1, r2}
    Backoffs = 2
    MaxReplays = 4
    MaxFaults = 1
INVARIANTS
    TypeOK
    NothingLost
    AttemptsAgree
    DeadLettersWereTried
PROPERTIES
    CancelHolds
SYMMETRY Alike
CHECK_DEADLOCK FALSE
