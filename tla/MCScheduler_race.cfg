\* A RunDue and a SendNow on one post, without any fault or lost answer.
SPECIFICATION Spec
CONSTANTS
    Null = Null
    LegacyBackoff <- ShortBackoff
    DayLength = 2
    PostIds <- OnePost
    ChannelIds <- OneChannel
    Workers = {scheduler, sender}
    SchedulerProcess = scheduler
    Fallback = Fallback
    BatchSize = 1
    Outcomes = {"ok"}
    Policy <- MixedPolicy
    StartTimes <- StartNow
    Horizon = 1
    MaxSends = 1
    MaxFaults = 0
INVARIANTS
    SentOnce
CHECK_DEADLOCK FALSE
