------------------------------- MODULE Scheduler -------------------------------
(***************************************************************************)
(* Publishing (internal/scheduler/service.go).  Two kinds of workers run   *)
(* processPost against the same database: the scheduler process, one       *)
(* RunDue after another, and the server's SendNow handlers, started by     *)
(* users at any time.  A worker takes one step per statement or per call   *)
(* of a publisher, so that the workers interleave wherever they do in the  *)
(* program.  What was really published is kept in `published', which no    *)
(* process can read.                                                       *)
(***************************************************************************)
EXTENDS Store

CONSTANTS
    Workers,
    SchedulerProcess,  \* the worker that runs RunDue; the others run SendNow
    Fallback,          \* where fallbackPublisher publishes a channel-less post
    BatchSize,         \* the LIMIT of ListDuePosts
    Outcomes,          \* what a publisher may answer
    Policy,            \* the effective retry policy of each channel
    StartTimes,        \* the scheduled times posts start with
    Horizon,           \* bound: the clock stops here
    MaxSends,          \* bound: SendNow requests
    MaxFaults          \* bound: crashes and failing statements

\* "ok" is a published post; "lost" a post that was published although the
\* publisher reports a transport error.  Nothing is published in the other
\* cases, the last of which also stands for a violated channel rule.
AllOutcomes == {"ok", "lost", "transient", "rate_limited", "permanent"}

ASSUME WorkersAssumption == SchedulerProcess \in Workers
ASSUME FallbackAssumption == Fallback \notin ChannelIds
ASSUME OutcomesAssumption == Outcomes \subseteq AllOutcomes
ASSUME PolicyAssumption == Policy \in [ChannelIds -> Policies]
ASSUME TimesAssumption == StartTimes \subseteq Moments /\ Horizon \in Nat
ASSUME BoundsAssumption ==
    BatchSize \in Nat \ {0} /\ MaxSends \in Nat /\ MaxFaults \in Nat

VARIABLES
    workers,    \* the local variables of each worker
    published,  \* what reached each target, counted
    sends,      \* SendNow requests so far
    faults      \* crashes and failing statements so far

vars == <<storeVars, workers, published, sends, faults>>

Targets == ChannelIds \cup {Fallback}

\* The columns of a post that processPost uses after it has read them.
Snapshot ==
    [id : PostIds, scheduledAt : MaybeMoments, wake : MaybeMoments,
     failCount : Nat]

\* The attempt row, respectively the post state, a worker is about to write.
Result == [status : AttemptStatus, retryAt : MaybeMoments]
Verdict ==
    [status : PostStatus \ {"draft"}, failCount : Nat, nextRetryAt : MaybeMoments]

Steps == {"idle", "due", "load", "channels", "limit", "publish", "insert",
          "store", "legacy", "mark", "delete"}

Worker ==
    [pc          : Steps,
     batch       : SUBSET Snapshot,          \* due posts still to process
     post        : Snapshot \cup {Null},
     force       : BOOLEAN,
     deleteAfter : BOOLEAN,                  \* send-and-delete
     at          : Moments,                  \* `now' of processChannelTargets
     eligible    : SUBSET ChannelIds,
     todo        : SUBSET ChannelIds,        \* channels the loop has not reached
     channel     : ChannelIds \cup {Null},
     no          : Nat,                      \* attemptNo
     result      : Result \cup {Null},
     verdict     : Verdict \cup {Null},
     err         : BOOLEAN]                  \* processPost returns an error

Idle ==
    [pc |-> "idle", batch |-> {}, post |-> Null, force |-> FALSE,
     deleteAfter |-> FALSE, at |-> 0, eligible |-> {}, todo |-> {},
     channel |-> Null, no |-> 0, result |-> Null, verdict |-> Null,
     err |-> FALSE]

SnapshotOf(p) ==
    [id |-> p, scheduledAt |-> posts[p].scheduledAt, wake |-> Wake(p),
     failCount |-> posts[p].failCount]

\* Mutant: send-and-delete does not look at the error of SendNow.
DoneRegardless(s, failed) ==
    IF s.batch # {} THEN [Idle EXCEPT !.pc = "due", !.batch = s.batch]
    ELSE IF s.deleteAfter
         THEN [Idle EXCEPT !.pc = "delete", !.post = s.post, !.force = TRUE,
                           !.deleteAfter = TRUE, !.eligible = s.eligible]
         ELSE Idle

\* The worker after processPost has returned: the next due post, the delete of
\* send-and-delete when there was no error, or the end of the run or request.
Done(s, failed) ==
    IF s.batch # {} THEN [Idle EXCEPT !.pc = "due", !.batch = s.batch]
    ELSE IF s.deleteAfter /\ ~failed
         THEN [Idle EXCEPT !.pc = "delete", !.post = s.post, !.force = TRUE,
                           !.deleteAfter = TRUE, !.eligible = s.eligible]
         ELSE Idle

\* The worker after one channel's attempt, back in the loop over channels.
NextChannel(s, failed) ==
    [s EXCEPT !.pc = "channels", !.channel = Null, !.no = 0, !.result = Null,
              !.err = s.err \/ failed]

TypeOK ==
    /\ StoreTypeOK
    /\ workers \in [Workers -> Worker]
    /\ published \in [PostIds -> [Targets -> Nat]]
    /\ sends \in Nat
    /\ faults \in Nat

-------------------------------------------------------------------------------
Init ==
    /\ now = 0
    /\ \E scheduledAt \in [PostIds -> StartTimes] :
          posts = [p \in PostIds |->
                      [status |-> "scheduled", scheduledAt |-> scheduledAt[p],
                       nextRetryAt |-> Null, failCount |-> 0,
                       approvalPending |-> FALSE, planningApproved |-> TRUE]]
    /\ postChannels \in [PostIds -> SUBSET ChannelIds]
    /\ channels \in [ChannelIds -> ChannelStatus]
    /\ attempts = {}
    /\ workers = [w \in Workers |-> Idle]
    /\ published = [p \in PostIds |-> [t \in Targets |-> 0]]
    /\ sends = 0
    /\ faults = 0

Tick ==
    /\ now < Horizon
    /\ now' = now + 1
    /\ UNCHANGED <<posts, postChannels, channels, attempts, workers, published,
                   sends, faults>>

\* The oldest posts of ListDuePosts, at most BatchSize of them.  A run that
\* finds none changes nothing and is left out.
RunDue(w) ==
    /\ w = SchedulerProcess
    /\ workers[w].pc = "idle"
    /\ \E due \in SUBSET DuePosts(now) :
          /\ due # {}
          /\ \/ due = DuePosts(now) /\ Cardinality(due) <= BatchSize
             \/ Cardinality(due) = BatchSize
          /\ \A p \in due, q \in DuePosts(now) \ due : WakesBefore(p, q)
          /\ workers' = [workers EXCEPT ![w] =
                [Idle EXCEPT !.pc = "due",
                             !.batch = {SnapshotOf(p) : p \in due}]]
    /\ UNCHANGED <<storeVars, published, sends, faults>>

\* The loop of RunDue: the batch in the order of the query, each post as it was
\* when the query ran.
NextDuePost(w) ==
    /\ workers[w].pc = "due"
    /\ \E s \in workers[w].batch :
          /\ \A t \in workers[w].batch :
                s.wake < t.wake \/ (s.wake = t.wake /\ s.id <= t.id)
          /\ workers' = [workers EXCEPT ![w] =
                [Idle EXCEPT !.pc = "load", !.post = s,
                             !.batch = workers[w].batch \ {s}]]
    /\ UNCHANGED <<storeVars, published, sends, faults>>

\* SendNow on behalf of a handler, which deletes the post afterwards when del:
\* GetPost and the check on its status.
SendNow(w, p, del) ==
    /\ w # SchedulerProcess
    /\ workers[w].pc = "idle"
    /\ sends < MaxSends
    /\ Exists(p)
    /\ posts[p].status # "sent"
    /\ workers' = [workers EXCEPT ![w] =
          [Idle EXCEPT !.pc = "load", !.post = SnapshotOf(p), !.force = TRUE,
                       !.deleteAfter = del]]
    /\ sends' = sends + 1
    /\ UNCHANGED <<storeVars, published, faults>>

SendNowPost(w, p) == SendNow(w, p, FALSE)

SendAndDeletePost(w, p) == SendNow(w, p, TRUE)

\* One turn of the loop over the posts of a bulk send, which goes on with the
\* next post whatever became of this one.
BulkSendNowPosts(w, p) == SendNow(w, p, FALSE)

\* An attempt that is not sent names the post, and all its open channels are
\* attempted, not only the channel of the attempt.
APIRetryPostAttempt(w, p) ==
    /\ \E r \in attempts : r.post = p /\ r.status # "sent"
    /\ SendNow(w, p, FALSE)

\* processPost: ListChannelsForPost, the disabled channels dropped.
LoadChannels(w) ==
    LET s == workers[w]
        assigned == postChannels[s.post.id]
        eligible == {c \in assigned : channels[c] # "disabled"}
    IN /\ s.pc = "load"
       /\ \/ /\ assigned = {}
             /\ workers' = [workers EXCEPT ![w] =
                   [s EXCEPT !.pc = "legacy", !.at = now]]
          \/ /\ assigned # {}
             /\ eligible = {}
             /\ workers' = [workers EXCEPT ![w] =
                   [s EXCEPT !.pc = "store", !.at = now, !.err = TRUE,
                             !.verdict = [status |-> "failed",
                                          failCount |-> s.post.failCount + 1,
                                          nextRetryAt |-> Null]]]
          \/ /\ eligible # {}
             /\ workers' = [workers EXCEPT ![w] =
                   [s EXCEPT !.pc = "channels", !.at = now,
                             !.eligible = eligible, !.todo = eligible]]
       /\ UNCHANGED <<storeVars, published, sends, faults>>

\* Mutant: a retry_at that has not come yet is not looked at.
ShouldAttemptEarly(s, c) ==
    LET latest == {r \in AttemptsOf(s.post.id, c) : IsLatest(r)}
    IN IF s.force THEN TRUE ELSE \A r \in latest : r.status = "retry"

\* Mutant: an attempt without retry_at, sent or failed, is made again.
ShouldAttemptAgain(s, c) ==
    LET latest == {r \in AttemptsOf(s.post.id, c) : IsLatest(r)}
    IN IF s.force THEN TRUE
       ELSE \A r \in {q \in latest : q.retryAt # Null} : r.retryAt <= s.at

\* shouldAttemptChannel, with the latest row of the channel when it has one.
ShouldAttempt(s, c) ==
    LET log == AttemptsOf(s.post.id, c)
        latest == {r \in log : IsLatest(r)}
    IN IF s.force THEN \A r \in latest : r.status # "sent"
       ELSE IF latest = {}
            THEN s.post.scheduledAt # Null /\ s.post.scheduledAt <= s.at
            ELSE \A r \in latest : /\ r.status = "retry"
                                   /\ r.retryAt # Null
                                   /\ r.retryAt <= s.at

\* One turn of the loop over the channels, in id order: GetLatestPublishAttempt.
GetLatest(w) ==
    LET s == workers[w]
    IN /\ s.pc = "channels"
       /\ \E c \in s.todo :
             /\ \A d \in s.todo : c <= d
             /\ \/ /\ ~ShouldAttempt(s, c)
                   /\ workers' = [workers EXCEPT ![w] =
                         [s EXCEPT !.todo = @ \ {c}]]
                \/ /\ ShouldAttempt(s, c)
                   /\ \E n \in {1} \cup {r.no + 1 : r \in AttemptsOf(s.post.id, c)} :
                         /\ \A r \in AttemptsOf(s.post.id, c) : r.no < n
                         /\ workers' = [workers EXCEPT ![w] =
                               [s EXCEPT !.pc = "limit", !.todo = @ \ {c},
                                         !.channel = c, !.no = n]]
       /\ UNCHANGED <<storeVars, published, sends, faults>>

\* Mutant: the limit is noticed one post too late.
CheckDailyLimitLate(w) ==
    LET s == workers[w]
        limit == Policy[s.channel].maxPostsPerDay
        reached == limit # Null /\ Cardinality(SentToday(s.channel, s.at)) > limit
    IN /\ s.pc = "limit"
       /\ workers' = [workers EXCEPT ![w] =
             IF reached
             THEN [s EXCEPT !.pc = "insert",
                            !.result = [status |-> "retry",
                                        retryAt |-> DayEnd(s.at)]]
             ELSE [s EXCEPT !.pc = "publish"]]
       /\ UNCHANGED <<storeVars, published, sends, faults>>

\* enforceChannelDailyLimit: a channel at its limit gets a retry row for the
\* next day in place of the attempt, whether the attempt was forced or not.
CheckDailyLimit(w) ==
    LET s == workers[w]
        limit == Policy[s.channel].maxPostsPerDay
        reached == limit # Null /\ Cardinality(SentToday(s.channel, s.at)) >= limit
    IN /\ s.pc = "limit"
       /\ workers' = [workers EXCEPT ![w] =
             IF reached
             THEN [s EXCEPT !.pc = "insert",
                            !.result = [status |-> "retry",
                                        retryAt |-> DayEnd(s.at)]]
             ELSE [s EXCEPT !.pc = "publish"]]
       /\ UNCHANGED <<storeVars, published, sends, faults>>

\* The row attemptChannelPublish stores after a publisher answered o.
ResultOf(s, o) ==
    LET category == IF o = "rate_limited" THEN o ELSE "transient"
        retryAt == ScheduleRetryWithPolicy(s.at, s.no, category, Policy[s.channel])
    IN CASE o = "ok" -> [status |-> "sent", retryAt |-> Null]
         [] o = "permanent" \/ (o # "ok" /\ retryAt = Null)
              -> [status |-> "failed", retryAt |-> Null]
         [] OTHER -> [status |-> "retry", retryAt |-> retryAt]

Deliver(p, t, o) ==
    published' = IF o \in {"ok", "lost"}
                 THEN [published EXCEPT ![p][t] = @ + 1]
                 ELSE published

Publish(w) ==
    LET s == workers[w]
    IN /\ s.pc = "publish"
       /\ \E o \in Outcomes :
             /\ Deliver(s.post.id, s.channel, o)
             /\ workers' = [workers EXCEPT ![w] =
                   [s EXCEPT !.pc = "insert", !.result = ResultOf(s, o)]]
       /\ UNCHANGED <<storeVars, sends, faults>>

\* Mutant: attempts numbered from zero.
RowFromZero(s) ==
    [post |-> s.post.id, channel |-> s.channel, no |-> s.no - 1, at |-> s.at,
     status |-> s.result.status, retryAt |-> s.result.retryAt]

RowOf(s) ==
    [post |-> s.post.id, channel |-> s.channel, no |-> s.no, at |-> s.at,
     status |-> s.result.status, retryAt |-> s.result.retryAt]

\* InsertPublishAttempt.  When it is refused the attempt leaves no row behind.
\* It reads the row back, which may fail although the row is stored.
InsertAttempt(w) ==
    LET s == workers[w]
        stored == CanInsertAttempt(RowOf(s))
    IN /\ s.pc = "insert"
       /\ InsertPublishAttempt(RowOf(s))
       /\ \/ /\ workers' = [workers EXCEPT ![w] =
                   NextChannel(s, s.result.status # "sent" \/ ~stored)]
             /\ UNCHANGED faults
          \/ /\ stored
             /\ faults < MaxFaults
             /\ workers' = [workers EXCEPT ![w] = NextChannel(s, TRUE)]
             /\ faults' = faults + 1
       /\ UNCHANGED <<now, posts, postChannels, channels, published, sends>>

\* Mutant: only failed attempts keep a post from being sent, so that a channel
\* without an attempt counts as done.
VerdictForgetsPending(s) ==
    LET latest == {r \in attempts : /\ r.post = s.post.id
                                    /\ r.channel \in s.eligible
                                    /\ IsLatest(r)}
        retryAts == {r.retryAt : r \in {q \in latest : q.status = "retry"}}
        status == IF retryAts # {} THEN "scheduled"
                  ELSE IF \E r \in latest : r.status = "failed" THEN "failed"
                  ELSE "sent"
    IN {[status |-> status, failCount |-> 0, nextRetryAt |-> t] :
           t \in IF retryAts = {} THEN {Null}
                 ELSE {u \in retryAts : \A v \in retryAts : u <= v}}

\* Mutant: the post wakes for the last of its retries.
VerdictOfLastRetry(s) ==
    LET latest == {r \in attempts : /\ r.post = s.post.id
                                    /\ r.channel \in s.eligible
                                    /\ IsLatest(r)}
        retryAts == {r.retryAt : r \in {q \in latest : q.status = "retry"}}
        pending == {c \in s.eligible : \A r \in latest : r.channel # c}
        status == IF retryAts # {} \/ pending # {} THEN "scheduled"
                  ELSE IF \E r \in latest : r.status = "failed" THEN "failed"
                  ELSE "sent"
    IN {[status |-> status, failCount |-> 0, nextRetryAt |-> t] :
           t \in IF retryAts = {} THEN {Null}
                 ELSE {u \in retryAts : \A v \in retryAts : u >= v}}

\* Mutant: one channel that has got the post is enough.
VerdictOfAnySent(s) ==
    LET isSent == \E r \in attempts : /\ r.post = s.post.id
                                     /\ r.channel \in s.eligible
                                     /\ r.status = "sent"
    IN {[status |-> IF isSent THEN "sent" ELSE "failed", failCount |-> 0,
         nextRetryAt |-> Null]}

\* reconcilePostStateFromChannels, for the channels the worker has seen as
\* eligible: their latest attempts decide the state of the post.
VerdictOf(s) ==
    LET latest == {r \in attempts : /\ r.post = s.post.id
                                    /\ r.channel \in s.eligible
                                    /\ IsLatest(r)}
        retrying == {r \in latest : r.status = "retry"}
        failed == {r \in latest : r.status = "failed"}
        open == retrying # {} \/ \E c \in s.eligible : \A r \in latest : r.channel # c
        retryAts == {r.retryAt : r \in retrying}
        failCount == Cardinality(retrying \cup failed)
    IN CASE open -> {[status |-> "scheduled", failCount |-> failCount,
                      nextRetryAt |-> t] :
                        t \in IF retryAts = {} THEN {Null}
                              ELSE {u \in retryAts : \A v \in retryAts : u <= v}}
         [] ~open /\ failed # {} -> {[status |-> "failed", failCount |-> failCount,
                                     nextRetryAt |-> Null]}
         [] OTHER -> {[status |-> "sent", failCount |-> 0, nextRetryAt |-> Null]}

\* ListLatestPublishAttemptsForPost, once every channel has had its turn.
Reconcile(w) ==
    LET s == workers[w]
    IN /\ s.pc = "channels"
       /\ s.todo = {}
       /\ \E v \in VerdictOf(s) :
             workers' = [workers EXCEPT ![w] =
                            [s EXCEPT !.pc = "store", !.verdict = v]]
       /\ UNCHANGED <<storeVars, published, sends, faults>>

\* SetPostState, and RecordFailure for a post without channels.
StorePostState(w) ==
    LET s == workers[w]
    IN /\ s.pc = "store"
       /\ SetPostState(s.post.id, s.verdict.status, s.verdict.failCount,
                       s.verdict.nextRetryAt)
       /\ workers' = [workers EXCEPT ![w] = Done(s, s.err \/ ~Exists(s.post.id))]
       /\ UNCHANGED <<now, postChannels, channels, attempts, published, sends,
                      faults>>

\* attemptLegacyPublish: a post without channels goes to the fallback publisher
\* and has no attempt rows; its fail_count picks the delay of the retry.
LegacyPublish(w) ==
    LET s == workers[w]
        failCount == s.post.failCount + 1
    IN /\ s.pc = "legacy"
       /\ \E o \in Outcomes :
             LET retryAt == IF o = "permanent" THEN Null
                            ELSE ScheduleRetry(s.at, failCount)
                 status == IF retryAt = Null THEN "failed" ELSE "scheduled"
             IN /\ Deliver(s.post.id, Fallback, o)
                /\ workers' = [workers EXCEPT ![w] =
                      IF o = "ok" THEN [s EXCEPT !.pc = "mark"]
                      ELSE [s EXCEPT !.pc = "store", !.err = TRUE,
                                     !.verdict = [status |-> status,
                                                  failCount |-> failCount,
                                                  nextRetryAt |-> retryAt]]]
       /\ UNCHANGED <<storeVars, sends, faults>>

LegacyMarkSent(w) ==
    LET s == workers[w]
    IN /\ s.pc = "mark"
       /\ MarkSent(s.post.id)
       /\ workers' = [workers EXCEPT ![w] = Done(s, ~Exists(s.post.id))]
       /\ UNCHANGED <<now, postChannels, channels, attempts, published, sends,
                      faults>>

\* Mutant: a connection without foreign_keys, so that nothing cascades.
DeleteAfterSendRowOnly(w) ==
    LET s == workers[w]
    IN /\ s.pc = "delete"
       /\ posts' = [posts EXCEPT ![s.post.id] = Null]
       /\ workers' = [workers EXCEPT ![w] = Idle]
       /\ UNCHANGED <<now, postChannels, channels, attempts, published, sends, faults>>

\* The second half of send-and-delete, after SendNow returned no error.
DeleteAfterSend(w) ==
    LET s == workers[w]
    IN /\ s.pc = "delete"
       /\ DeletePost(s.post.id)
       /\ workers' = [workers EXCEPT ![w] = Idle]
       /\ UNCHANGED <<now, channels, published, sends, faults>>

\* The process dies, or the request of a handler is cancelled.
Crash(w) ==
    /\ workers[w].pc # "idle"
    /\ faults < MaxFaults
    /\ workers' = [workers EXCEPT ![w] = Idle]
    /\ faults' = faults + 1
    /\ UNCHANGED <<storeVars, published, sends>>

\* A statement fails: the loop over the channels records the error and goes on
\* after an attempt, processPost returns anywhere else.
StatementFails(w) ==
    LET s == workers[w]
    IN /\ faults < MaxFaults
       /\ \/ /\ s.pc \in {"limit", "insert"}
             /\ workers' = [workers EXCEPT ![w] = NextChannel(s, TRUE)]
          \/ /\ s.pc \in {"load", "channels", "store", "mark"}
             /\ workers' = [workers EXCEPT ![w] = Done(s, TRUE)]
       /\ faults' = faults + 1
       /\ UNCHANGED <<storeVars, published, sends>>

Process(w) ==
    \/ NextDuePost(w)
    \/ LoadChannels(w)
    \/ GetLatest(w)
    \/ CheckDailyLimit(w)
    \/ Publish(w)
    \/ InsertAttempt(w)
    \/ Reconcile(w)
    \/ StorePostState(w)
    \/ LegacyPublish(w)
    \/ LegacyMarkSent(w)
    \/ DeleteAfterSend(w)

Send(w, p) ==
    \/ SendNowPost(w, p)
    \/ SendAndDeletePost(w, p)
    \/ BulkSendNowPosts(w, p)
    \/ APIRetryPostAttempt(w, p)

Next ==
    \/ Tick
    \/ \E w \in Workers :
          \/ RunDue(w)
          \/ Process(w)
          \/ \E p \in PostIds : Send(w, p)
          \/ Crash(w)
          \/ StatementFails(w)

Spec == Init /\ [][Next]_vars

\* The clock runs, the container starts the scheduler again after each run and
\* running code makes progress.  Nobody has to send, crash or fail.
Fairness ==
    /\ WF_vars(Tick)
    /\ \A w \in Workers : WF_vars(RunDue(w)) /\ WF_vars(Process(w))

FairSpec == Spec /\ Fairness

-------------------------------------------------------------------------------
(***************************************************************************)
(* Properties.                                                             *)
(***************************************************************************)
Eligible(p) == {c \in postChannels[p] : channels[c] # "disabled"}

\* The post has reached everything it is to reach.
Delivered(p) ==
    IF postChannels[p] = {} THEN published[p][Fallback] > 0
    ELSE /\ Eligible(p) # {}
         /\ \A c \in Eligible(p) : /\ published[p][c] > 0
                                   /\ \E r \in AttemptsOf(p, c) : r.status = "sent"

\* No worker has the post in hand.
Quiet(p) ==
    \A w \in Workers : \A s \in workers[w].batch \cup {workers[w].post} :
        s # Null => s.id # p

\* The attempts of a post on a channel are numbered 1, 2, 3, ... without a gap,
\* each number used once, whichever workers of whichever process race for them
\* (attemptNo is read before the publish and written after it).
AttemptNumbersGapless ==
    /\ \A r, s \in attempts : SameTarget(r, s) /\ r.no = s.no => r = s
    /\ \A r \in attempts : \A m \in 1 .. r.no :
          \E s \in attempts : SameTarget(r, s) /\ s.no = m

\* Once an attempt on a channel is recorded as sent no later attempt on it is
\* recorded, not even by a SendNow that had looked at the log before.
SentIsLast ==
    \A r, s \in attempts : SameTarget(r, s) /\ r.status = "sent" => s.no <= r.no

\* A post is marked as sent only when every enabled channel it is assigned to,
\* or the fallback when it has none, has really got it.
SentPostWasDelivered ==
    \A p \in PostIds : Exists(p) /\ posts[p].status = "sent" => Delivered(p)

\* Send-and-delete never deletes a post that has not been delivered everywhere:
\* a failed, deferred or skipped channel makes SendNow return an error.
OnlyDeliveredPostsAreDeleted ==
    [][\A p \in PostIds : Exists(p) /\ ~Exists(p)' => Delivered(p)]_vars

\* The scheduler makes a first attempt at or after scheduled_at and a further
\* one only on a channel whose previous attempt kept a retry, at or after that
\* retry's moment: it does not come back to a failed channel, nor too early.
PublishedWhenDue ==
    [][\A r \in attempts' \ attempts :
          workers'[SchedulerProcess] # workers[SchedulerProcess] =>
             IF r.no = 1
             THEN posts[r.post].scheduledAt <= r.at
             ELSE \E s \in attempts : /\ SameTarget(r, s)
                                      /\ s.no = r.no - 1
                                      /\ s.status = "retry"
                                      /\ s.retryAt <= r.at]_vars

\* With one worker a target gets a post twice only if an answer was lost or a
\* step failed in between: the log of attempts prevents every other repeat.
RepeatsNeedFaults ==
    \A p \in PostIds, t \in Targets : published[p][t] <= 1 + faults

\* Nothing is sent twice: SendNow refuses a post that is sent, the loop over the
\* channels one whose latest attempt is.  Broken when RunDue and SendNow run at
\* the same time: both look before either has written.
SentOnce ==
    \A p \in PostIds, t \in Targets : published[p][t] <= 1

\* RunDue processes eligible scheduled posts only, so that a post delivered on
\* its channels does not go to the fallback publisher too.  Broken when the post
\* is sent and deleted while it waits in the batch: processPost then finds no
\* channels, takes it for a legacy post and publishes it.
FallbackOrChannels ==
    \A p \in PostIds, c \in ChannelIds :
        published[p][Fallback] > 0 => published[p][c] = 0

\* With one worker, whatever fails and wherever it crashes, an open channel is
\* not forgotten: the post stays scheduled and wakes no later than the retry.
NothingForgotten ==
    \A p \in PostIds :
        Exists(p) /\ Quiet(p) =>
            \A c \in Eligible(p) :
                LET latest == {r \in AttemptsOf(p, c) : IsLatest(r)}
                IN (\A r \in latest : r.status = "retry") =>
                      /\ posts[p].status = "scheduled"
                      /\ Wake(p) # Null
                      /\ \A r \in latest : Wake(p) <= r.retryAt

\* Every scheduled post whose moment falls within the modelled time leaves the
\* scheduled state: retries end, also with crashes and senders in between.
Settles ==
    \A p \in PostIds :
        Exists(p) /\ posts[p].status = "scheduled"
            ~> \/ ~Exists(p)
               \/ posts[p].status # "scheduled"
               \/ Wake(p) > Horizon

\* The attempt rows, without their times, are a DeliveryLog.
Log == INSTANCE DeliveryLog WITH
          Posts <- PostIds,
          Channels <- ChannelIds,
          Statuses <- AttemptStatus,
          alive <- {p \in PostIds : Exists(p)},
          log <- {[post |-> r.post, channel |-> r.channel, no |-> r.no,
                   status |-> r.status] : r \in attempts}

\* Whatever the workers do, the table is append-only, each list closed by its
\* first sent attempt, and nothing is logged for a post that is gone.
ImplementsDeliveryLog == Log!Spec
================================================================================
