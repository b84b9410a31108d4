\* A post that is sent and deleted while it waits in the batch of RunDue.
SPECIFICATION Spec
CONSTANTS
    Null = Null
    LegacyBackoff <- ShortBackoff
    DayLength = 2
    PostIds <- OnePost
    ChannelIds <- OneChannel
    Workers = {scheduler, sender}
    SchedulerProcess = scheduler
    Fallback = Fallback
    BatchSize = 1
    Outcomes = {"ok"}
    Policy <- MixedPolicy
    StartTimes <- StartNow
    Horizon = 1
    MaxSends = 1
    MaxFaults = 0
INVARIANTS
    FallbackOrChannels
CHECK_DEADLOCK FALSE
