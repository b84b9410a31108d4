\* The scheduler process alone, with crashes and failing statements: two posts,
\* one of which goes to two channels, compete for a channel that takes one a day.
SPECIFICATION SharedSpec
CONSTANTS
    Null = Null
    LegacyBackoff <- ShortBackoff
    DayLength = 2
    PostIds <- TwoPosts
    ChannelIds <- TwoChannels
    Workers = {scheduler}
    SchedulerProcess = scheduler
    Fallback = Fallback
    BatchSize = 2
    Outcomes = {"ok", "transient", "rate_limited", "permanent"}
    Policy <- OneLimited
    StartTimes <- StartLater
    Horizon = 3
    MaxSends = 0
    MaxFaults = 1
INVARIANTS
    TypeOK
    RepeatsNeedFaults
    NothingForgotten
    DailyLimitRespected
    SentPostWasDelivered
PROPERTIES
    PublishedWhenDue
    Settles
CHECK_DEADLOCK FALSE
