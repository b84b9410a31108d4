\* The scheduler and a user who sends, or sends and deletes, the same post on
\* two channels that fail independently, with one crash or failing statement.
SPECIFICATION SendersSpec
CONSTANTS
    Null = Null
    LegacyBackoff <- ShortBackoff
    DayLength = 2
    PostIds <- OnePost
    ChannelIds <- TwoChannels
    Workers = {scheduler, sender}
    SchedulerProcess = scheduler
    Fallback = Fallback
    BatchSize = 1
    Outcomes = {"ok", "lost", "permanent"}
    Policy <- MixedPolicy
    StartTimes <- StartNow
    Horizon = 1
    MaxSends = 1
    MaxFaults = 1
INVARIANTS
    AttemptNumbersGapless
    SentIsLast
    SentPostWasDelivered
PROPERTIES
    PublishedWhenDue
    ImplementsDeliveryLog
    OnlyDeliveredPostsAreDeleted
CHECK_DEADLOCK FALSE
