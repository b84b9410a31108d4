\* Equal and different requests under one key, with faults and lost clients.
SPECIFICATION Spec
CONSTANTS
    Null = Null
    Keys = {k1}
    Requests = {r1, r2}
    Answers = {a1, a2}
    Calls = {c1, c2, c3}
    MaxCalls = 4
    MaxFaults = 2
INVARIANTS
    TypeOK
    StoredIsGiven
PROPERTIES
    ImplementsAtMostOnce
CHECK_DEADLOCK FALSE
