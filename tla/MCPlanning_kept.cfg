\* An approval that overlaps with an agent's edit.
SPECIFICATION Spec
CONSTANTS
    Null = Null
    LegacyBackoff <- Backoff
    DayLength = 2
    PostIds <- OnePost
    ChannelIds <- OneChannel
    Handlers = {h1, h2}
    Times = {Null, 0}
    MaxRequests = 3
PROPERTIES
    ApprovalIsKept
CHECK_DEADLOCK FALSE
