\* Two requests on one post that the scheduler publishes and a user sends.
SPECIFICATION PublishingSpec
CONSTANTS
    Null = Null
    LegacyBackoff <- Backoff
    DayLength = 2
    PostIds <- OnePost
    ChannelIds <- OneChannel
    Handlers = {h1}
    Times = {0}
    MaxRequests = 2
    Workers = {scheduler, sender}
    SchedulerProcess = scheduler
    Fallback = Fallback
    BatchSize = 1
    Outcomes = {"ok", "permanent"}
    Policy <- OneRetry
    Horizon = 0
    MaxSends = 1
    MaxFaults = 0
INVARIANTS
    PublishingTypeOK
    OnlyClearedIsPublished
    ChannelGetsPostOnce
    LogIntact
PROPERTIES
    ImplementsPlanning
CHECK_DEADLOCK FALSE
