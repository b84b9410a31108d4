------------------------------ MODULE RetryPolicy ------------------------------
(***************************************************************************)
(* When a failed publish is tried again (internal/scheduler/service.go and *)
(* internal/model/channel_retry_policy.go).  Time is counted in abstract   *)
(* ticks; Null stands for a nil *time.Time or a NULL column.               *)
(***************************************************************************)
EXTENDS Integers

CONSTANTS
    Null,           \* nil / NULL
    LegacyBackoff,  \* retryBackoff of the scheduler package: three delays
    DayLength       \* ticks in a UTC day

ASSUME NullAssumption == Null \notin Int
ASSUME LegacyBackoffAssumption == LegacyBackoff \in [1 .. 3 -> Nat \ {0}]
ASSUME DayLengthAssumption == DayLength \in Nat \ {0}

Moments == Nat
MaybeMoments == Nat \cup {Null}

\* A channel's retry policy, as normalizeChannelRetryPolicyInput admits it:
\* every delay is positive and a daily limit, when there is one, is positive.
Policies ==
    [maxRetries       : 0 .. 10,
     backoff          : [1 .. 3 -> Nat \ {0}],
     rateLimitBackoff : Nat \ {0},
     maxPostsPerDay   : (Nat \ {0}) \cup {Null}]

\* The retry moment after the failCount-th failure of a post that has no
\* channels, Null when the post has to be given up.
ScheduleRetry(t, failCount) ==
    IF failCount \in 1 .. 3 THEN t + LegacyBackoff[failCount] ELSE Null

\* The retry moment after attempt number attemptNo on a channel failed with an
\* error of this category, Null when the policy keeps no retry.
ScheduleRetryWithPolicy(t, attemptNo, category, policy) ==
    IF attemptNo <= 0 \/ attemptNo > policy.maxRetries THEN Null
    ELSE IF category = "rate_limited" THEN t + policy.rateLimitBackoff
    ELSE t + policy.backoff[IF attemptNo > 3 THEN 3 ELSE attemptNo]

\* The UTC day a moment belongs to, and the first moment of the day after it.
DayOf(t) == t \div DayLength
DayEnd(t) == (DayOf(t) + 1) * DayLength
================================================================================
