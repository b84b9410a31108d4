\* One event for one URL and one replay.
SPECIFICATION Spec
CONSTANTS
    Null = Null
    EventIds <- OneEvent
    Urls <- OneUrl
    Emitters = {e1}
    Replayers = {r1}
    Backoffs = 1
    MaxReplays = 1
    MaxFaults = 0
INVARIANTS
    PayloadArrives
CHECK_DEADLOCK FALSE
