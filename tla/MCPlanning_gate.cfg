\* Overlapping requests of people and agents on one post.
SPECIFICATION Spec
CONSTANTS
    Null = Null
    LegacyBackoff <- Backoff
    DayLength = 2
    PostIds <- OnePost
    ChannelIds <- OneChannel
    Handlers = {h1, h2}
    Times = {Null, 0}
    MaxRequests = 2
INVARIANTS
    TypeOK
    ApprovalGate
CHECK_DEADLOCK FALSE
