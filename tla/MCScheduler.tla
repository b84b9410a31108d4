------------------------------ MODULE MCScheduler ------------------------------
(***************************************************************************)
(* Small instances of Scheduler for TLC.                                   *)
(***************************************************************************)
EXTENDS Scheduler

\* Ids stay numbers: the code orders posts and channels by them.
OnePost == {1}
TwoPosts == {1, 2}
OneChannel == {1}
TwoChannels == {1, 2}

\* 1m, 5m and 15m, in ticks.
ShortBackoff == <<1, 2, 3>>

\* Two retries on channel 1, one on channel 2, without a limit.
MixedPolicy ==
    [c \in ChannelIds |->
        [maxRetries |-> 3 - c, backoff |-> <<1, 2, 2>>, rateLimitBackoff |-> 2,
         maxPostsPerDay |-> Null]]

\* Channel 1 takes one post a day.
OneLimited == [MixedPolicy EXCEPT ![1].maxPostsPerDay = 1]

StartNow == {0}
StartLater == {1}

\* The service asks of a channel only whether it is disabled.
SendersInit ==
    /\ Init
    /\ channels[1] = "active"
    /\ channels[2] \in {"active", "disabled"}

SendersSpec == SendersInit /\ [][Next]_vars
================================================================================
