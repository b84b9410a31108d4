\* A client goes away before the answer to its request, which was carried out, is
\* stored; nothing else fails.
SPECIFICATION Spec
CONSTANTS
    Null = Null
    Keys = {k1}
    Requests = {r1}
    Answers = {a1}
    Calls = {c1}
    MaxCalls = 2
    MaxFaults = 0
INVARIANTS
    InProgressIsTrue
CHECK_DEADLOCK FALSE
