------------------------------- MODULE Publishing -------------------------------
(***************************************************************************)
(* The whole path of a post: the handlers of Planning and the workers of   *)
(* Scheduler on one database (cmd/server runs the handlers and the senders, *)
(* cmd/scheduler the RunDue worker).  Posts come into being, change and    *)
(* vanish under the scheduler's hands; the steps by which Planning and     *)
(* Scheduler see each other from outside are replaced by the real ones.    *)
(***************************************************************************)
EXTENDS Planning

CONSTANTS
    Workers, SchedulerProcess, Fallback,  \* see Scheduler
    BatchSize, Outcomes, Policy, Horizon, MaxSends, MaxFaults

\* What Scheduler assumes of them.
ASSUME PublishingAssumption ==
    /\ SchedulerProcess \in Workers
    /\ Fallback \notin ChannelIds
    /\ Outcomes \subseteq {"ok", "lost", "transient", "rate_limited", "permanent"}
    /\ Policy \in [ChannelIds -> Policies]
    /\ BatchSize \in Nat \ {0} /\ Horizon \in Nat /\ MaxSends \in Nat /\ MaxFaults \in Nat

VARIABLES
    workers, published, sends, faults     \* see Scheduler

schedulerVars == <<workers, published, sends, faults>>
publishingVars == <<vars, schedulerVars>>

\* Posts are not there from the start, so that StartTimes is of no use.
S == INSTANCE Scheduler WITH StartTimes <- {}

PublishingTypeOK == TypeOK /\ S!TypeOK

-------------------------------------------------------------------------------
PublishingInit ==
    /\ Init
    /\ workers = [w \in Workers |-> S!Idle]
    /\ published = [p \in PostIds |-> [t \in S!Targets |-> 0]]
    /\ sends = 0
    /\ faults = 0

\* The handlers of posts, channels and the approval policy.
Plan == HandlerNext /\ UNCHANGED schedulerVars

\* The clock, and what the workers do once they have been started.
Work ==
    /\ \/ S!Tick
       \/ \E w \in Workers :
             S!RunDue(w) \/ S!Process(w) \/ S!Crash(w) \/ S!StatementFails(w)
    /\ UNCHANGED <<requests, acceptBeforePlanning, lastId, cleared, begun>>

\* Somebody has a post sent, which no policy holds back.
Send(w, p) ==
    /\ S!Send(w, p)
    /\ cleared' = cleared \cup {p}
    /\ UNCHANGED <<requests, acceptBeforePlanning, lastId, begun>>

PublishingNext ==
    \/ Plan
    \/ Work
    \/ \E w \in Workers, p \in PostIds : Send(w, p)

PublishingSpec == PublishingInit /\ [][PublishingNext]_publishingVars

-------------------------------------------------------------------------------
(***************************************************************************)
(* Properties.                                                             *)
(***************************************************************************)
\* Nothing is published that only agents have scheduled whom the policy holds
\* back, also when the post changes or vanishes while it waits in the batch.
OnlyClearedIsPublished ==
    \A p \in PostIds, t \in S!Targets : published[p][t] > 0 => p \in cleared

\* A channel gets a post once, plus at most once more for each fault and for each
\* request to send that races with the scheduler, however often the post is
\* edited, rescheduled after it was sent, or given other channels.  Not when the
\* post or the channel is deleted in the middle of a run: that erases the log the
\* run goes by.
ChannelGetsPostOnce ==
    \A p \in PostIds, c \in ChannelIds :
        Exists(p) /\ channels[c] # Null => published[p][c] <= 1 + faults + sends

\* The log of attempts keeps its numbering and ends with the sent attempt while
\* posts and channels are deleted under it.
LogIntact == S!AttemptNumbersGapless /\ S!SentIsLast

\* What Planning sees of a post: when it is retried and how often it has failed
\* is the business of the scheduler.
PlanningRow(p) ==
    IF Exists(p) THEN [posts[p] EXCEPT !.nextRetryAt = Null, !.failCount = 0] ELSE Null

\* Planning leaves the clock and the log of attempts to the scheduler as well.
P == INSTANCE Planning WITH
        now <- 0,
        attempts <- {},
        posts <- [p \in PostIds |-> PlanningRow(p)]

\* The scheduler and the senders do to the tables what Planning takes them to do
\* from outside: they store a status for a post that was planned, long after they
\* have read it, and leave all that people and agents have put there meanwhile.
ImplementsPlanning == P!Spec
================================================================================
