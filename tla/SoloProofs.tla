------------------------------ MODULE SoloProofs ------------------------------
(***************************************************************************)
(* What holds as long as the scheduler process is the only worker, whatever *)
(* fails and wherever it crashes: no open channel is forgotten, nothing is  *)
(* published again without a fault, and no channel exceeds its daily limit. *)
(* No request interferes, so that whatever the process has read still holds *)
(* when it writes.                                                          *)
(***************************************************************************)
EXTENDS DeliveryProofs, DailyLimit

Solo == Workers = {SchedulerProcess}

\* The post was due at moment t, and still looks so.
Picked(p, t) ==
    /\ posts[p].status = "scheduled"
    /\ Wake(p) # Null
    /\ Wake(p) <= t

Latest(p, c) == {r \in AttemptsOf(p, c) : IsLatest(r)}

\* The channel has no attempt, or one that is to be made again.
Open(p, c) == \A r \in Latest(p, c) : r.status = "retry"

\* A state of the post that brings the scheduler back for each open channel.
Covers(v, p) ==
    \A c \in Eligible(p) :
        Open(p, c) =>
            /\ v.status = "scheduled"
            /\ v.nextRetryAt = Null => Latest(p, c) = {}
            /\ v.nextRetryAt # Null =>
                  \A r \in Latest(p, c) : v.nextRetryAt <= r.retryAt

\* What the process has read of the posts in its batch and of the channel it is
\* about to attempt, and what it has concluded.
SoloInHand(s) ==
    /\ s.pc # "delete" /\ ~s.force /\ ~s.deleteAfter
    /\ \A x \in s.batch : Picked(x.id, now)
    /\ \A x, y \in s.batch : x.id = y.id => x = y
    /\ s.pc \notin {"idle", "due"} =>
          /\ Picked(s.post.id, IF s.pc = "load" THEN now ELSE s.at)
          /\ \A x \in s.batch : x.id # s.post.id
    /\ s.pc \in {"limit", "publish", "insert"} =>
          \A r \in AttemptsOf(s.post.id, s.channel) : r.no < s.no /\ r.status # "sent"
    /\ s.pc = "insert" /\ s.result.status = "retry" =>
          s.result.retryAt \in Nat /\ s.at <= s.result.retryAt
    /\ s.pc = "store" => Covers(s.verdict, s.post.id)

\* No post is deleted, so that no insert is refused.
SoloTables ==
    /\ \A p \in PostIds : Exists(p) /\ posts[p].scheduledAt \in Nat
    /\ \A c \in ChannelIds : channels[c] # Null
    /\ \A r \in attempts : r.status = "retry" => r.retryAt \in Nat

OpenIsCovered ==
    \A p \in PostIds : \A c \in Eligible(p) :
        Open(p, c) =>
            /\ posts[p].status = "scheduled"
            /\ Wake(p) # Null
            /\ \A r \in Latest(p, c) : Wake(p) <= r.retryAt

SoloInv == SoloTables /\ OpenIsCovered /\ SoloInHand(workers[SchedulerProcess])

\* Published, and on the way to the row or the status that says so.
OnItsWay(s, p, c) ==
    s.pc = "insert" /\ s.result.status = "sent" /\ s.post.id = p /\ s.channel = c

Recorded(s, p, c) == HasSentRow(p, c) \/ OnItsWay(s, p, c)

Marked(s, p) == posts[p].status = "sent" \/ (s.pc = "mark" /\ s.post.id = p)

\* Every publish but one without a record took a fault to be repeated.
RepeatsInv(s) ==
    \A p \in PostIds :
        /\ \A c \in ChannelIds :
              published[p][c] <= faults + (IF Recorded(s, p, c) THEN 1 ELSE 0)
        /\ published[p][Fallback] <= faults + (IF Marked(s, p) THEN 1 ELSE 0)

-------------------------------------------------------------------------------
(***************************************************************************)
(* Retries lie in the future.                                              *)
(***************************************************************************)
LEMMA DayEndAfter ==
    ASSUME NEW t \in Nat PROVE DayEnd(t) \in Nat /\ t <= DayEnd(t)
  <1>1. PICK d \in Nat \ {0} : d = DayLength
    BY DayLengthAssumption
  <1>2. PICK q \in Nat : q = t \div d
    BY <1>1
  <1>3. t < (q + 1) * d /\ (q + 1) * d \in Nat
    BY <1>1, <1>2
  <1> QED BY <1>1, <1>2, <1>3 DEF DayEnd, DayOf

LEMMA RetryAfter ==
    ASSUME NEW s \in Worker, s.channel \in ChannelIds, NEW o,
           ResultOf(s, o).status = "retry"
    PROVE  ResultOf(s, o).retryAt \in Nat /\ s.at <= ResultOf(s, o).retryAt
  <1> DEFINE category == IF o = "rate_limited" THEN o ELSE "transient"
             policy == Policy[s.channel]
             retryAt == ScheduleRetryWithPolicy(s.at, s.no, category, policy)
  <1>1. s.at \in Nat /\ s.no \in Nat /\ policy \in Policies
    BY PolicyAssumption DEF Worker, Moments
  <1>2. policy.rateLimitBackoff \in Nat /\ policy.backoff \in [1 .. 3 -> Nat]
    BY <1>1 DEF Policies
  <1> HIDE DEF policy
  <1>3. retryAt # Null => retryAt \in Nat /\ s.at <= retryAt
    <2>1. (IF s.no > 3 THEN 3 ELSE s.no) \in 1 .. 3 \/ s.no <= 0
      BY <1>1
    <2>2. policy.backoff[IF s.no > 3 THEN 3 ELSE s.no] \in Nat \/ s.no <= 0
      BY <1>2, <2>1
    <2> QED BY <1>1, <1>2, <2>2 DEF ScheduleRetryWithPolicy
  <1>4. ResultOf(s, o) =
          CASE o = "ok" -> [status |-> "sent", retryAt |-> Null]
            [] o = "permanent" \/ (o # "ok" /\ retryAt = Null)
                 -> [status |-> "failed", retryAt |-> Null]
            [] OTHER -> [status |-> "retry", retryAt |-> retryAt]
    BY DEF ResultOf, policy
  <1> HIDE DEF retryAt
  <1>5. retryAt # Null /\ ResultOf(s, o) = [status |-> "retry", retryAt |-> retryAt]
    <2>1. CASE o = "ok"
      BY <1>4, <2>1
    <2>2. CASE o # "ok" /\ (o = "permanent" \/ retryAt = Null)
      BY <1>4, <2>2
    <2>3. CASE o # "ok" /\ o # "permanent" /\ retryAt # Null
      BY <1>4, <2>3
    <2> QED BY <2>1, <2>2, <2>3
  <1> QED BY <1>3, <1>5

-------------------------------------------------------------------------------
(***************************************************************************)
(* The process moves, action by action.                                    *)
(***************************************************************************)
\* It moves on and leaves the tables alone.
LEMMA SoloMoves ==
    ASSUME TypeInv, SoloInv, UNCHANGED storeVars, NEW t, SoloInHand(t),
           workers' = [workers EXCEPT ![SchedulerProcess] = t]
    PROVE  SoloInv'
  <1>1. workers'[SchedulerProcess] = t
    BY WorkersAssumption DEF TypeInv, TypeOK
  <1>2. /\ now' = now /\ posts' = posts /\ attempts' = attempts
        /\ channels' = channels /\ postChannels' = postChannels
    BY DEF storeVars
  <1>3. \A p, c : Eligible(p)' = Eligible(p) /\ Latest(p, c)' = Latest(p, c)
    BY <1>2 DEF Eligible, Latest, AttemptsOf, IsLatest
  <1>4. SoloTables'
    BY <1>2 DEF SoloInv, SoloTables, Exists
  <1>5. OpenIsCovered'
    BY <1>2, <1>3 DEF SoloInv, OpenIsCovered, Open, Wake
  <1>6. \A p : Covers(t.verdict, p)' = Covers(t.verdict, p)
    BY <1>2, <1>3 DEF Covers, Open
  <1>7. \A p, m : Picked(p, m)' = Picked(p, m)
    BY <1>2 DEF Picked, Wake
  <1>8. SoloInHand(t)'
    BY <1>2, <1>6, <1>7 DEF SoloInHand, AttemptsOf, Picked, Wake
  <1> QED BY <1>1, <1>4, <1>5, <1>8 DEF SoloInv, SoloInHand

LEMMA SoloDone ==
    ASSUME NEW s \in Worker, NEW failed, SoloInHand(s)
    PROVE  SoloInHand(Done(s, failed))
  <1>1. CASE s.batch # {}
    <2>1. PICK t : t = [Idle EXCEPT !.pc = "due", !.batch = s.batch]
      OBVIOUS
    <2>2. /\ t.pc = "due" /\ t.batch = s.batch /\ t.force = FALSE
          /\ t.deleteAfter = FALSE
      BY <2>1 DEF Idle
    <2>3. SoloInHand(t)
      BY <2>2 DEF SoloInHand
    <2> QED BY <1>1, <2>1, <2>3 DEF Done
  <1>2. CASE s.batch = {}
    <2>1. Done(s, failed) = Idle
      BY <1>2 DEF Done, SoloInHand
    <2> QED BY <2>1 DEF SoloInHand, Idle
  <1> QED BY <1>1, <1>2

LEMMA SoloRunDue ==
    ASSUME TypeInv, SoloInv, RunDue(SchedulerProcess) PROVE SoloInv'
  <1>1. PICK due \in SUBSET DuePosts(now) :
           workers' = [workers EXCEPT ![SchedulerProcess] =
               [Idle EXCEPT !.pc = "due", !.batch = {SnapshotOf(p) : p \in due}]]
    BY DEF RunDue
  <1>2. PICK batch : batch = {SnapshotOf(p) : p \in due}
    OBVIOUS
  <1>3. PICK t : t = [Idle EXCEPT !.pc = "due", !.batch = batch]
    OBVIOUS
  <1>4. t.pc = "due" /\ t.batch = batch /\ t.force = FALSE /\ t.deleteAfter = FALSE
    BY <1>3 DEF Idle
  <1>5. \A x \in batch : Picked(x.id, now) /\ x = SnapshotOf(x.id)
    <2> SUFFICES ASSUME NEW p \in due
                 PROVE  /\ Picked(SnapshotOf(p).id, now)
                        /\ SnapshotOf(p) = SnapshotOf(SnapshotOf(p).id)
      BY <1>2
    <2>1. SnapshotOf(p).id = p
      BY DEF SnapshotOf
    <2>2. IsDue(p, now)
      BY DEF DuePosts
    <2> QED BY <2>1, <2>2 DEF Picked, IsDue
  <1>6. SoloInHand(t)
    BY <1>4, <1>5 DEF SoloInHand
  <1> QED BY <1>1, <1>2, <1>3, <1>6, SoloMoves DEF RunDue

LEMMA SoloNextDuePost ==
    ASSUME TypeInv, SoloInv, NextDuePost(SchedulerProcess) PROVE SoloInv'
  <1>1. PICK s : s = workers[SchedulerProcess]
    OBVIOUS
  <1>2. PICK x \in s.batch :
           workers' = [workers EXCEPT ![SchedulerProcess] =
               [Idle EXCEPT !.pc = "load", !.post = x, !.batch = s.batch \ {x}]]
    BY <1>1 DEF NextDuePost
  <1>3. PICK t : t = [Idle EXCEPT !.pc = "load", !.post = x, !.batch = s.batch \ {x}]
    OBVIOUS
  <1>4. /\ t.pc = "load" /\ t.batch = s.batch \ {x} /\ t.post = x
        /\ t.force = FALSE /\ t.deleteAfter = FALSE
    BY <1>3 DEF Idle
  <1>5. SoloInHand(s)
    BY <1>1 DEF SoloInv
  <1>6. SoloInHand(t)
    BY <1>2, <1>4, <1>5 DEF SoloInHand
  <1> QED BY <1>2, <1>3, <1>6, SoloMoves DEF NextDuePost

LEMMA SoloLoadChannels ==
    ASSUME TypeInv, SoloInv, LoadChannels(SchedulerProcess) PROVE SoloInv'
  <1>1. PICK s \in Worker : s = workers[SchedulerProcess]
    BY WorkersAssumption DEF TypeInv, TypeOK
  <1>2. PICK v : v = [status |-> "failed", failCount |-> s.post.failCount + 1,
                      nextRetryAt |-> Null]
    OBVIOUS
  <1>3. PICK t :
           /\ workers' = [workers EXCEPT ![SchedulerProcess] = t]
           /\ \/ t = [s EXCEPT !.pc = "legacy", !.at = now]
              \/ /\ Eligible(s.post.id) = {}
                 /\ t = [s EXCEPT !.pc = "store", !.at = now, !.err = TRUE, !.verdict = v]
              \/ t = [s EXCEPT !.pc = "channels", !.at = now,
                               !.eligible = Eligible(s.post.id),
                               !.todo = Eligible(s.post.id)]
    BY <1>1, <1>2 DEF LoadChannels, Eligible
  <1>4. /\ t.post = s.post /\ t.force = s.force /\ t.deleteAfter = s.deleteAfter
        /\ t.batch = s.batch /\ t.at = now
        /\ \/ t.pc \in {"legacy", "channels"}
           \/ t.pc = "store" /\ Eligible(s.post.id) = {}
    BY <1>3 DEF Worker
  <1>5. s.pc = "load" /\ SoloInHand(s)
    BY <1>1 DEF SoloInv, LoadChannels
  <1>6. t.pc = "store" => Covers(t.verdict, t.post.id)
    BY <1>4 DEF Covers
  <1>7. SoloInHand(t)
    BY <1>4, <1>5, <1>6 DEF SoloInHand
  <1> QED BY <1>3, <1>7, SoloMoves DEF LoadChannels

LEMMA SoloGetLatest ==
    ASSUME TypeInv, LogInv, SoloInv, GetLatest(SchedulerProcess) PROVE SoloInv'
  <1>1. PICK s \in Worker : s = workers[SchedulerProcess]
    BY WorkersAssumption DEF TypeInv, TypeOK
  <1>2. PICK c \in s.todo :
           \/ workers' = [workers EXCEPT ![SchedulerProcess] = [s EXCEPT !.todo = @ \ {c}]]
           \/ /\ ShouldAttempt(s, c)
              /\ \E n \in {1} \cup {r.no + 1 : r \in AttemptsOf(s.post.id, c)} :
                    /\ \A r \in AttemptsOf(s.post.id, c) : r.no < n
                    /\ workers' = [workers EXCEPT ![SchedulerProcess] =
                          [s EXCEPT !.pc = "limit", !.todo = @ \ {c}, !.channel = c,
                                    !.no = n]]
    BY <1>1 DEF GetLatest
  <1>3. PICK t, n :
           /\ workers' = [workers EXCEPT ![SchedulerProcess] = t]
           /\ \/ t = [s EXCEPT !.todo = @ \ {c}]
              \/ /\ ShouldAttempt(s, c)
                 /\ \A r \in AttemptsOf(s.post.id, c) : r.no < n
                 /\ t = [s EXCEPT !.pc = "limit", !.todo = @ \ {c}, !.channel = c, !.no = n]
    BY <1>2
  <1>4. s.pc = "channels" /\ SoloInHand(s)
    BY <1>1 DEF SoloInv, GetLatest
  <1>5. /\ t.post = s.post /\ t.force = s.force /\ t.deleteAfter = s.deleteAfter
        /\ t.batch = s.batch /\ t.at = s.at
        /\ \/ t.pc = "channels"
           \/ /\ t.pc = "limit" /\ t.channel = c /\ t.no = n
              /\ ShouldAttempt(s, c)
              /\ \A r \in AttemptsOf(s.post.id, c) : r.no < n
    BY <1>3, <1>4 DEF Worker
  <1>6. ASSUME ShouldAttempt(s, c), NEW r \in AttemptsOf(s.post.id, c), r.status = "sent"
        PROVE  FALSE
    <2>1. IsLatest(r)
      BY <1>6 DEF LogInv, SentIsLast, IsLatest, AttemptsOf
    <2>2. ~s.force
      BY <1>4 DEF SoloInHand
    <2> QED BY <1>6, <2>1, <2>2 DEF ShouldAttempt
  <1>7. SoloInHand(t)
    BY <1>4, <1>5, <1>6 DEF SoloInHand
  <1> QED BY <1>3, <1>7, SoloMoves DEF GetLatest

LEMMA SoloCheckDailyLimit ==
    ASSUME TypeInv, SoloInv, CheckDailyLimit(SchedulerProcess) PROVE SoloInv'
  <1>1. PICK s \in Worker : s = workers[SchedulerProcess]
    BY WorkersAssumption DEF TypeInv, TypeOK
  <1>2. PICK result : result = [status |-> "retry", retryAt |-> DayEnd(s.at)]
    OBVIOUS
  <1>3. PICK t : /\ workers' = [workers EXCEPT ![SchedulerProcess] = t]
                 /\ \/ t = [s EXCEPT !.pc = "insert", !.result = result]
                    \/ t = [s EXCEPT !.pc = "publish"]
    BY <1>1, <1>2 DEF CheckDailyLimit
  <1>4. s.pc = "limit" /\ SoloInHand(s)
    BY <1>1 DEF SoloInv, CheckDailyLimit
  <1>5. /\ t.post = s.post /\ t.force = s.force /\ t.deleteAfter = s.deleteAfter
        /\ t.batch = s.batch /\ t.at = s.at /\ t.channel = s.channel /\ t.no = s.no
        /\ t.pc = "publish" \/ (t.pc = "insert" /\ t.result = result)
    BY <1>3 DEF Worker
  <1>6. result.retryAt \in Nat /\ s.at <= result.retryAt
    BY <1>2, DayEndAfter DEF Worker, Moments
  <1>7. SoloInHand(t)
    BY <1>4, <1>5, <1>6 DEF SoloInHand
  <1> QED BY <1>3, <1>7, SoloMoves DEF CheckDailyLimit

LEMMA SoloPublish ==
    ASSUME TypeInv, SoloInv, Publish(SchedulerProcess) PROVE SoloInv'
  <1>1. PICK s \in Worker : s = workers[SchedulerProcess]
    BY WorkersAssumption DEF TypeInv, TypeOK
  <1>2. PICK o \in Outcomes :
           workers' = [workers EXCEPT ![SchedulerProcess] =
                 [s EXCEPT !.pc = "insert", !.result = ResultOf(s, o)]]
    BY <1>1 DEF Publish
  <1>3. PICK t : t = [s EXCEPT !.pc = "insert", !.result = ResultOf(s, o)]
    OBVIOUS
  <1>4. s.pc = "publish" /\ SoloInHand(s) /\ s.channel \in ChannelIds
    BY <1>1, WorkersAssumption DEF SoloInv, Publish, TypeInv, InHand
  <1>5. /\ t.post = s.post /\ t.force = s.force /\ t.deleteAfter = s.deleteAfter
        /\ t.batch = s.batch /\ t.at = s.at /\ t.channel = s.channel /\ t.no = s.no
        /\ t.pc = "insert" /\ t.result = ResultOf(s, o)
    BY <1>3 DEF Worker
  <1>6. t.result.status = "retry" => t.result.retryAt \in Nat /\ t.at <= t.result.retryAt
    BY <1>4, <1>5, RetryAfter
  <1>7. SoloInHand(t)
    BY <1>4, <1>5, <1>6 DEF SoloInHand
  <1> QED BY <1>2, <1>3, <1>7, SoloMoves DEF Publish

\* The state reconcilePostStateFromChannels picks covers every open channel.
LEMMA VerdictCovers ==
    ASSUME TypeInv, SoloInv, NEW s \in Worker, s.post.id \in PostIds,
           s.eligible = Eligible(s.post.id), NEW v \in VerdictOf(s)
    PROVE  Covers(v, s.post.id)
  <1> DEFINE p == s.post.id
             latest == {r \in attempts : /\ r.post = s.post.id
                                         /\ r.channel \in s.eligible
                                         /\ IsLatest(r)}
             retrying == {r \in latest : r.status = "retry"}
             failed == {r \in latest : r.status = "failed"}
             open == retrying # {} \/ \E c \in s.eligible : \A r \in latest : r.channel # c
             retryAts == {r.retryAt : r \in retrying}
             failCount == Cardinality(retrying \cup failed)
  <1> SUFFICES ASSUME NEW c \in Eligible(p), Open(p, c)
               PROVE  /\ v.status = "scheduled"
                      /\ v.nextRetryAt = Null => Latest(p, c) = {}
                      /\ v.nextRetryAt # Null =>
                            \A r \in Latest(p, c) : v.nextRetryAt <= r.retryAt
    BY DEF Covers
  <1>1. \A r \in latest : r.channel = c => r \in Latest(p, c)
    BY DEF Latest, AttemptsOf
  <1>2. Latest(p, c) \subseteq retrying
    BY DEF Latest, AttemptsOf, Open
  <1>3. open
    <2>1. CASE Latest(p, c) = {}
      BY <1>1, <2>1
    <2>2. CASE Latest(p, c) # {}
      BY <1>2, <2>2
    <2> QED BY <2>1, <2>2
  <1>4. PICK t \in IF retryAts = {} THEN {Null}
                   ELSE {u \in retryAts : \A w \in retryAts : u <= w} :
           v = [status |-> "scheduled", failCount |-> failCount, nextRetryAt |-> t]
    BY <1>3 DEF VerdictOf
  <1>5. v.status = "scheduled" /\ v.nextRetryAt = t
    BY <1>4
  <1>6. \A r \in retrying : r.retryAt \in retryAts /\ r.retryAt \in Nat
    BY DEF SoloInv, SoloTables
  <1> HIDE DEF retrying, retryAts, open, latest
  <1>7. CASE retryAts = {}
    <2>1. retrying = {}
      BY <1>6, <1>7
    <2> QED BY <1>2, <1>4, <1>5, <1>7, <2>1
  <1>8. CASE retryAts # {}
    <2>1. t \in retryAts /\ \A w \in retryAts : t <= w
      BY <1>4, <1>8
    <2>2. t \in Nat
      BY <1>6, <2>1 DEF retryAts
    <2> QED BY <1>2, <1>5, <1>6, <2>1, <2>2, NullAssumption
  <1> QED BY <1>7, <1>8

LEMMA SoloReconcile ==
    ASSUME TypeInv, DeliveryInv, SoloInv, Reconcile(SchedulerProcess) PROVE SoloInv'
  <1>1. PICK s \in Worker : s = workers[SchedulerProcess]
    BY WorkersAssumption DEF TypeInv, TypeOK
  <1>2. PICK v \in VerdictOf(s) :
           workers' = [workers EXCEPT ![SchedulerProcess] =
                          [s EXCEPT !.pc = "store", !.verdict = v]]
    BY <1>1 DEF Reconcile
  <1>3. PICK t : t = [s EXCEPT !.pc = "store", !.verdict = v]
    OBVIOUS
  <1>4. /\ s.pc = "channels" /\ SoloInHand(s) /\ s.post.id \in PostIds
        /\ DeliveryInHand(s)
    BY <1>1, WorkersAssumption
       DEF SoloInv, DeliveryInv, Reconcile, TypeInv, InHand, Snapshot
  <1>5. /\ t.post = s.post /\ t.force = s.force /\ t.deleteAfter = s.deleteAfter
        /\ t.batch = s.batch /\ t.at = s.at /\ t.pc = "store" /\ t.verdict = v
    BY <1>3 DEF Worker
  <1>6. s.eligible = Eligible(s.post.id)
    BY <1>4 DEF DeliveryInHand, InLoop, SoloInv, SoloTables
  <1>7. Covers(t.verdict, t.post.id)
    BY <1>4, <1>5, <1>6, VerdictCovers
  <1>8. SoloInHand(t)
    BY <1>4, <1>5, <1>7 DEF SoloInHand
  <1> QED BY <1>2, <1>3, <1>8, SoloMoves DEF Reconcile

LEMMA SoloLegacyPublish ==
    ASSUME TypeInv, DeliveryInv, SoloInv, LegacyPublish(SchedulerProcess) PROVE SoloInv'
  <1>1. PICK s \in Worker : s = workers[SchedulerProcess]
    BY WorkersAssumption DEF TypeInv, TypeOK
  <1>2. PICK t, v :
           /\ workers' = [workers EXCEPT ![SchedulerProcess] = t]
           /\ \/ t = [s EXCEPT !.pc = "mark"]
              \/ t = [s EXCEPT !.pc = "store", !.err = TRUE, !.verdict = v]
    BY <1>1 DEF LegacyPublish
  <1>3. /\ s.pc = "legacy" /\ SoloInHand(s) /\ s.post.id \in PostIds
        /\ DeliveryInHand(s)
    BY <1>1, WorkersAssumption
       DEF SoloInv, DeliveryInv, LegacyPublish, TypeInv, InHand, Snapshot
  <1>4. /\ t.post = s.post /\ t.force = s.force /\ t.deleteAfter = s.deleteAfter
        /\ t.batch = s.batch /\ t.at = s.at /\ t.pc \in {"mark", "store"}
    BY <1>2 DEF Worker
  <1>5. postChannels[s.post.id] = {}
    BY <1>3 DEF DeliveryInHand, SoloInv, SoloTables
  <1>6. Covers(t.verdict, t.post.id)
    BY <1>4, <1>5 DEF Covers, Eligible
  <1>7. SoloInHand(t)
    BY <1>3, <1>4, <1>6 DEF SoloInHand
  <1> QED BY <1>2, <1>7, SoloMoves DEF LegacyPublish

LEMMA SoloFaults ==
    ASSUME TypeInv, SoloInv, Crash(SchedulerProcess) \/ StatementFails(SchedulerProcess)
    PROVE  SoloInv'
  <1>1. PICK s \in Worker : s = workers[SchedulerProcess]
    BY WorkersAssumption DEF TypeInv, TypeOK
  <1>2. PICK t : /\ workers' = [workers EXCEPT ![SchedulerProcess] = t]
                 /\ \/ t = Idle
                    \/ s.pc \in {"limit", "insert"} /\ t = NextChannel(s, TRUE)
                    \/ t = Done(s, TRUE)
    BY <1>1 DEF Crash, StatementFails
  <1>3. SoloInHand(s)
    BY <1>1 DEF SoloInv
  <1>4. SoloInHand(t)
    <2>1. CASE t = Idle
      BY <2>1 DEF SoloInHand, Idle
    <2>2. CASE s.pc \in {"limit", "insert"} /\ t = NextChannel(s, TRUE)
      <3>1. /\ t.pc = "channels" /\ t.post = s.post /\ t.force = s.force
            /\ t.deleteAfter = s.deleteAfter /\ t.batch = s.batch /\ t.at = s.at
        BY <2>2 DEF NextChannel, Worker
      <3> QED BY <1>3, <2>2, <3>1 DEF SoloInHand
    <2>3. CASE t = Done(s, TRUE)
      BY <1>3, <2>3, SoloDone
    <2> QED BY <1>2, <2>1, <2>2, <2>3
  <1> QED BY <1>2, <1>4, SoloMoves DEF Crash, StatementFails

\* A row nobody else could have taken the number of becomes the latest.
LEMMA SoloInserts ==
    ASSUME TypeInv, SoloInv, InsertAttempt(SchedulerProcess),
           NEW row, row = RowOf(workers[SchedulerProcess])
    PROVE  /\ CanInsertAttempt(row)
           /\ attempts' = attempts \cup {row}
           /\ Latest(row.post, row.channel)' = {row}
           /\ \A p, c : p # row.post \/ c # row.channel => Latest(p, c)' = Latest(p, c)
  <1>1. PICK s \in Worker : s = workers[SchedulerProcess]
    BY WorkersAssumption DEF TypeInv, TypeOK
  <1>2. /\ s.pc = "insert" /\ s.post.id \in PostIds /\ s.channel \in ChannelIds
        /\ s.no \in Nat /\ SoloInHand(s)
    BY <1>1, WorkersAssumption DEF InsertAttempt, TypeInv, InHand, Snapshot, SoloInv
  <1>3. row.post = s.post.id /\ row.channel = s.channel /\ row.no = s.no
    BY <1>1 DEF RowOf
  <1>4. \A r \in attempts : SameTarget(r, row) => r.no < row.no
    BY <1>2, <1>3 DEF SoloInHand, AttemptsOf, SameTarget
  <1>5. \A r \in attempts : r.no \in Nat
    BY DEF TypeInv, TypeOK, StoreTypeOK, AttemptRow
  <1>6. CanInsertAttempt(row)
    BY <1>2, <1>3, <1>4, <1>5 DEF CanInsertAttempt, SoloInv, SoloTables
  <1>7. attempts' = attempts \cup {row}
    BY <1>1, <1>6 DEF InsertAttempt, InsertPublishAttempt
  <1>8. \A r \in attempts' : SameTarget(r, row) => r.no <= row.no /\ (r # row => r.no < row.no)
    BY <1>2, <1>3, <1>4, <1>5, <1>7
  <1>9. Latest(row.post, row.channel)' = {row}
    <2>1. IsLatest(row)'
      BY <1>7, <1>8 DEF IsLatest, SameTarget
    <2>2. ASSUME NEW r \in Latest(row.post, row.channel)' PROVE r = row
      <3>1. r \in attempts' /\ SameTarget(r, row) /\ row.no <= r.no
        BY <1>7, <2>2 DEF Latest, AttemptsOf, IsLatest, SameTarget
      <3> QED BY <1>2, <1>3, <1>4, <1>5, <1>7, <3>1
    <2> QED BY <1>7, <2>1, <2>2 DEF Latest, AttemptsOf
  <1>10. ASSUME NEW p, NEW c, p # row.post \/ c # row.channel
         PROVE  Latest(p, c)' = Latest(p, c)
    BY <1>7, <1>10 DEF Latest, AttemptsOf, IsLatest, SameTarget
  <1> QED BY <1>6, <1>7, <1>9, <1>10

LEMMA SoloInsertAttempt ==
    ASSUME TypeInv, SoloInv, InsertAttempt(SchedulerProcess) PROVE SoloInv'
  <1>1. PICK s \in Worker : s = workers[SchedulerProcess]
    BY WorkersAssumption DEF TypeInv, TypeOK
  <1>2. PICK row : row = RowOf(s)
    OBVIOUS
  <1>3. /\ attempts' = attempts \cup {row}
        /\ Latest(row.post, row.channel)' = {row}
        /\ \A p, c : p # row.post \/ c # row.channel => Latest(p, c)' = Latest(p, c)
    BY <1>1, <1>2, SoloInserts
  <1>4. PICK failed : workers' = [workers EXCEPT ![SchedulerProcess] = NextChannel(s, failed)]
    BY <1>1 DEF InsertAttempt
  <1>5. PICK t : t = NextChannel(s, failed)
    OBVIOUS
  <1>6. /\ t.pc = "channels" /\ t.post = s.post /\ t.force = s.force
        /\ t.deleteAfter = s.deleteAfter /\ t.batch = s.batch /\ t.at = s.at
    BY <1>5 DEF NextChannel, Worker
  <1>7. /\ s.pc = "insert" /\ SoloInHand(s) /\ s.at \in Nat /\ s.post.id \in PostIds
    BY <1>1, WorkersAssumption
       DEF InsertAttempt, SoloInv, Worker, Moments, TypeInv, InHand, Snapshot
  <1>8. /\ posts' = posts /\ now' = now /\ channels' = channels
        /\ postChannels' = postChannels
    BY DEF InsertAttempt
  <1>9. /\ row.post = s.post.id /\ row.channel = s.channel
        /\ row.status = s.result.status /\ row.retryAt = s.result.retryAt
    BY <1>2 DEF RowOf
  <1>10. row.status = "retry" => row.retryAt \in Nat /\ s.at <= row.retryAt
    BY <1>7, <1>9 DEF SoloInHand
  <1>11. \A p, m : Picked(p, m)' = Picked(p, m)
    BY <1>8 DEF Picked, Wake
  <1>12. SoloInHand(t)'
    BY <1>6, <1>7, <1>8, <1>11 DEF SoloInHand
  <1>13. SoloTables'
    BY <1>3, <1>8, <1>10 DEF SoloInv, SoloTables, Exists
  <1>14. OpenIsCovered'
    <2> SUFFICES ASSUME NEW p \in PostIds, NEW c \in Eligible(p), Open(p, c)'
                 PROVE  /\ posts[p].status = "scheduled"
                        /\ Wake(p) # Null
                        /\ \A r \in Latest(p, c)' : Wake(p) <= r.retryAt
      BY <1>8 DEF OpenIsCovered, Eligible, Wake
    <2>1. CASE p = row.post /\ c = row.channel
      <3>1. Picked(p, s.at)
        BY <1>7, <1>9, <2>1 DEF SoloInHand
      <3>2. row.status = "retry"
        BY <1>3, <2>1 DEF Open
      <3>3. Wake(p) \in MaybeMoments
        BY DEF Wake, TypeInv, TypeOK, StoreTypeOK, PostRow, SoloInv, SoloTables, Exists
      <3>4. Wake(p) <= row.retryAt
        BY <1>7, <1>10, <3>1, <3>2, <3>3 DEF Picked, MaybeMoments
      <3> QED BY <1>3, <2>1, <3>1, <3>4 DEF Picked
    <2>2. CASE p # row.post \/ c # row.channel
      <3>1. Latest(p, c)' = Latest(p, c)
        BY <1>3, <2>2
      <3>2. Open(p, c)
        BY <3>1 DEF Open
      <3> QED BY <3>1, <3>2 DEF SoloInv, OpenIsCovered
    <2> QED BY <2>1, <2>2
  <1>15. workers'[SchedulerProcess] = t
    BY <1>4, <1>5, WorkersAssumption DEF TypeInv, TypeOK
  <1> QED BY <1>12, <1>13, <1>14, <1>15 DEF SoloInv, SoloInHand

\* The state that is stored covers the open channels; the rest of the batch is
\* as it was.
LEMMA SoloStores ==
    ASSUME TypeInv, Grows, DeliveryInv, SoloInv,
           StorePostState(SchedulerProcess) \/ LegacyMarkSent(SchedulerProcess)
    PROVE  SoloInv'
  <1>1. PICK s \in Worker : s = workers[SchedulerProcess]
    BY WorkersAssumption DEF TypeInv, TypeOK
  <1>2. PICK p \in PostIds : p = s.post.id
    BY <1>1, WorkersAssumption
       DEF StorePostState, LegacyMarkSent, TypeInv, InHand, Snapshot
  <1>3. PICK failed, t : t = Done(s, failed)
                         /\ workers' = [workers EXCEPT ![SchedulerProcess] = t]
    BY <1>1 DEF StorePostState, LegacyMarkSent
  <1>4. /\ attempts' = attempts /\ now' = now /\ channels' = channels
        /\ postChannels' = postChannels
    BY DEF StorePostState, LegacyMarkSent
  <1>5. /\ s.pc \notin {"idle", "due"} /\ SoloInHand(s) /\ DeliveryInHand(s)
        /\ Exists(p) /\ posts[p].scheduledAt \in Nat
    BY <1>1, WorkersAssumption
       DEF StorePostState, LegacyMarkSent, SoloInv, DeliveryInv, SoloTables
  <1>6. posts \in [PostIds -> PostRow \cup {Null}] /\ posts[p] \in PostRow
    BY <1>5 DEF TypeInv, TypeOK, StoreTypeOK, Exists
  <1>7. PICK row \in PostRow :
           /\ posts' = [posts EXCEPT ![p] = row]
           /\ row.scheduledAt = posts[p].scheduledAt
           /\ \/ StorePostState(SchedulerProcess) /\ row.status = s.verdict.status
                 /\ row.nextRetryAt = s.verdict.nextRetryAt
              \/ LegacyMarkSent(SchedulerProcess)
    <2>1. CASE StorePostState(SchedulerProcess)
      <3>1. s.verdict \in Verdict
        BY <1>1, <2>1, WorkersAssumption DEF StorePostState, TypeInv, InHand
      <3>2. PICK row : row = [posts[p] EXCEPT !.status = s.verdict.status,
                                 !.failCount = s.verdict.failCount,
                                 !.nextRetryAt = s.verdict.nextRetryAt]
        OBVIOUS
      <3>3. row \in PostRow
        BY <1>6, <3>1, <3>2 DEF PostRow, Verdict
      <3>4. /\ row.scheduledAt = posts[p].scheduledAt
            /\ row.status = s.verdict.status /\ row.nextRetryAt = s.verdict.nextRetryAt
        BY <1>6, <3>2 DEF PostRow
      <3>5. posts' = [posts EXCEPT ![p] = row]
        BY <1>1, <1>2, <1>5, <2>1, <3>2 DEF StorePostState, SetPostState
      <3> QED BY <2>1, <3>3, <3>4, <3>5
    <2>2. CASE LegacyMarkSent(SchedulerProcess)
      <3>1. PICK row : row = [posts[p] EXCEPT !.status = "sent", !.nextRetryAt = Null]
        OBVIOUS
      <3>2. row \in PostRow
        BY <1>6, <3>1 DEF PostRow, PostStatus, MaybeMoments
      <3>3. row.scheduledAt = posts[p].scheduledAt
        BY <1>6, <3>1 DEF PostRow
      <3>4. posts' = [posts EXCEPT ![p] = row]
        BY <1>1, <1>2, <1>5, <2>2, <3>1 DEF LegacyMarkSent, MarkSent
      <3> QED BY <2>2, <3>2, <3>3, <3>4
    <2> QED BY <2>1, <2>2
  <1>8. \A q \in PostIds : posts'[q] = IF q = p THEN row ELSE posts[q]
    BY <1>6, <1>7
  <1>9. \A q, c : Eligible(q)' = Eligible(q) /\ Latest(q, c)' = Latest(q, c)
    BY <1>4 DEF Eligible, Latest, AttemptsOf, IsLatest
  <1>10. SoloTables'
    BY <1>4, <1>5, <1>7, <1>8, NoRowAssumption DEF SoloInv, SoloTables, Exists
  <1>11. OpenIsCovered'
    <2> SUFFICES ASSUME NEW q \in PostIds, NEW c \in Eligible(q), Open(q, c)
                 PROVE  /\ posts'[q].status = "scheduled"
                        /\ Wake(q)' # Null
                        /\ \A r \in Latest(q, c) : Wake(q)' <= r.retryAt
      BY <1>9 DEF OpenIsCovered, Open
    <2>1. CASE q # p
      BY <1>8, <2>1 DEF SoloInv, OpenIsCovered, Wake
    <2>2. CASE q = p /\ StorePostState(SchedulerProcess)
      <3>1. s.pc = "store"
        BY <1>1, <2>2 DEF StorePostState
      <3>2. Covers(s.verdict, p)
        BY <1>2, <1>5, <3>1 DEF SoloInHand
      <3>3. /\ s.verdict.status = "scheduled"
            /\ s.verdict.nextRetryAt = Null => Latest(q, c) = {}
            /\ s.verdict.nextRetryAt # Null =>
                  \A r \in Latest(q, c) : s.verdict.nextRetryAt <= r.retryAt
        BY <2>2, <3>2 DEF Covers
      <3>4. row.status = s.verdict.status /\ row.nextRetryAt = s.verdict.nextRetryAt
        BY <1>1, <1>7, <2>2 DEF StorePostState, LegacyMarkSent
      <3>5. posts'[q] = row /\ posts[p].scheduledAt # Null
        BY <1>5, <1>8, <2>2, NullAssumption
      <3> QED BY <1>7, <3>3, <3>4, <3>5 DEF Wake
    <2>3. CASE q = p /\ LegacyMarkSent(SchedulerProcess)
      <3>1. postChannels[p] = {}
        BY <1>1, <1>2, <1>5, <2>3 DEF LegacyMarkSent, DeliveryInHand
      <3> QED BY <2>3, <3>1 DEF Eligible
    <2> QED BY <2>1, <2>2, <2>3, <1>7
  <1>12. SoloInHand(t)
    BY <1>3, <1>5, SoloDone
  <1>13. t.pc \in {"idle", "due"} /\ \A x \in t.batch : x.id \in PostIds /\ x.id # p
    <2>1. t.pc \in {"idle", "due"}
      BY <1>3, <1>12, DoneStep DEF SoloInHand
    <2>2. t.batch \subseteq s.batch
      BY <1>3 DEF Done, Idle
    <2>3. \A x \in s.batch : x.id \in PostIds /\ x.id # p
      BY <1>2, <1>5 DEF SoloInHand, Worker, Snapshot
    <2> QED BY <2>1, <2>2, <2>3
  <1>14. \A x \in t.batch : Picked(x.id, now)' = Picked(x.id, now)
    BY <1>4, <1>8, <1>13 DEF Picked, Wake
  <1>15. SoloInHand(t)'
    BY <1>12, <1>13, <1>14 DEF SoloInHand
  <1>16. workers'[SchedulerProcess] = t
    BY <1>3, WorkersAssumption DEF TypeInv, TypeOK
  <1> QED BY <1>10, <1>11, <1>15, <1>16 DEF SoloInv, SoloInHand

LEMMA SoloInit == Init => SoloInv
  <1> SUFFICES ASSUME Init PROVE SoloInv
    OBVIOUS
  <1>1. workers[SchedulerProcess] = Idle
    BY WorkersAssumption DEF Init
  <1>2. \A p \in PostIds : /\ posts[p] \in PostRow
                           /\ posts[p].status = "scheduled"
                           /\ posts[p].scheduledAt \in Nat
                           /\ posts[p].nextRetryAt = Null
    <2>1. posts \in [PostIds -> PostRow \cup {Null}]
      BY InitType DEF TypeInv, TypeOK, StoreTypeOK
    <2>2. PICK scheduledAt \in [PostIds -> StartTimes] :
             posts = [p \in PostIds |->
                        [status |-> "scheduled", scheduledAt |-> scheduledAt[p],
                         nextRetryAt |-> Null, failCount |-> 0,
                         approvalPending |-> FALSE, planningApproved |-> TRUE]]
      BY DEF Init
    <2>3. \A p \in PostIds : scheduledAt[p] \in Nat
      BY TimesAssumption DEF Moments
    <2>4. \A p \in PostIds :
             [status |-> "scheduled", scheduledAt |-> scheduledAt[p],
              nextRetryAt |-> Null, failCount |-> 0,
              approvalPending |-> FALSE, planningApproved |-> TRUE] \in PostRow
      BY <2>3 DEF PostRow, PostStatus, MaybeMoments
    <2> QED BY <2>2, <2>3, <2>4
  <1>3. SoloTables
    <2>1. \A p \in PostIds : Exists(p) /\ posts[p].scheduledAt \in Nat
      BY <1>2, NoRowAssumption DEF Exists
    <2>2. channels \in [ChannelIds -> ChannelStatus] /\ attempts = {}
      BY DEF Init
    <2>3. \A c \in ChannelIds : channels[c] # Null
      BY <2>2, NoStatusAssumption
    <2> QED BY <2>1, <2>2, <2>3 DEF SoloTables
  <1>4. \A p, c : Latest(p, c) = {}
    BY DEF Init, Latest, AttemptsOf
  <1>5. OpenIsCovered
    BY <1>2, <1>4, NullAssumption DEF OpenIsCovered, Wake
  <1>6. SoloInHand(workers[SchedulerProcess])
    BY <1>1 DEF SoloInHand, Idle
  <1> QED BY <1>3, <1>5, <1>6 DEF SoloInv

LEMMA SoloTick ==
    ASSUME TypeInv, SoloInv, Tick PROVE SoloInv'
  <1>1. /\ now' = now + 1 /\ now \in Nat
        /\ UNCHANGED <<posts, postChannels, channels, attempts, workers>>
    BY DEF Tick, TypeInv, TypeOK, StoreTypeOK, Moments
  <1>2. PICK s \in Worker : s = workers[SchedulerProcess]
    BY WorkersAssumption DEF TypeInv, TypeOK
  <1>3. \A p, c : Eligible(p)' = Eligible(p) /\ Latest(p, c)' = Latest(p, c)
    BY <1>1 DEF Eligible, Latest, AttemptsOf, IsLatest
  <1>4. SoloTables'
    BY <1>1 DEF SoloInv, SoloTables, Exists
  <1>5. OpenIsCovered'
    BY <1>1, <1>3 DEF SoloInv, OpenIsCovered, Open, Wake
  <1>6. \A v, p : Covers(v, p)' = Covers(v, p)
    BY <1>1, <1>3 DEF Covers, Open
  <1>7. \A p \in PostIds : Picked(p, now) => Picked(p, now)'
    <2> SUFFICES ASSUME NEW p \in PostIds, Picked(p, now) PROVE Picked(p, now)'
      OBVIOUS
    <2>1. Wake(p) \in MaybeMoments
      BY DEF Wake, TypeInv, TypeOK, StoreTypeOK, PostRow, SoloInv, SoloTables, Exists
    <2> QED BY <1>1, <2>1 DEF Picked, Wake, MaybeMoments
  <1>8. \A p, m : Picked(p, m) => (posts'[p].status = "scheduled" /\ Wake(p)' # Null
                                    /\ Wake(p)' <= m)
    BY <1>1 DEF Picked, Wake
  <1>9. SoloInHand(s) /\ InHand(s)
    BY <1>2, WorkersAssumption DEF SoloInv, TypeInv
  <1>10. \A x \in s.batch : x.id \in PostIds
    BY DEF Worker, Snapshot
  <1>11. s.pc \notin {"idle", "due"} => s.post.id \in PostIds
    BY <1>9 DEF InHand, Snapshot
  <1>12. SoloInHand(s)'
    <2>1. \A x \in s.batch : Picked(x.id, now)'
      BY <1>7, <1>9, <1>10 DEF SoloInHand
    <2>2. s.pc \notin {"idle", "due"} =>
             Picked(s.post.id, IF s.pc = "load" THEN now ELSE s.at)'
      <3>1. CASE s.pc = "load"
        BY <1>7, <1>9, <1>11, <3>1 DEF SoloInHand
      <3>2. CASE s.pc # "load" /\ s.pc \notin {"idle", "due"}
        <4>1. Picked(s.post.id, s.at)
          BY <1>9, <3>2 DEF SoloInHand
        <4>2. Picked(s.post.id, s.at)'
          BY <1>8, <4>1 DEF Picked
        <4> QED BY <3>2, <4>2
      <3> QED BY <3>1, <3>2
    <2>3. AttemptsOf(s.post.id, s.channel)' = AttemptsOf(s.post.id, s.channel)
      BY <1>1 DEF AttemptsOf
    <2> QED BY <1>6, <1>9, <2>1, <2>2, <2>3 DEF SoloInHand
  <1>13. workers'[SchedulerProcess] = s
    BY <1>1, <1>2
  <1> QED BY <1>4, <1>5, <1>12, <1>13 DEF SoloInv, SoloInHand

\* With the scheduler process alone nobody sends, and nobody deletes.
SoloStep(w) ==
    \/ RunDue(w) \/ NextDuePost(w) \/ LoadChannels(w) \/ GetLatest(w)
    \/ CheckDailyLimit(w) \/ Publish(w) \/ InsertAttempt(w) \/ Reconcile(w)
    \/ StorePostState(w) \/ LegacyPublish(w) \/ LegacyMarkSent(w)
    \/ Crash(w) \/ StatementFails(w)

LEMMA SoloNext ==
    ASSUME Solo, SoloInv, [Next]_vars
    PROVE  Tick \/ SoloStep(SchedulerProcess) \/ UNCHANGED vars
  <1>1. ~DeleteAfterSend(SchedulerProcess)
    BY DEF DeleteAfterSend, SoloInv, SoloInHand
  <1>2. \A p \in PostIds : ~Send(SchedulerProcess, p)
    BY WorkersAssumption, SendIsSendNow DEF SendNow
  <1> QED BY <1>1, <1>2 DEF Solo, Next, Process, SoloStep

LEMMA NextSolo ==
    ASSUME Solo, IInv, DeliveryInv, SoloInv, [Next]_vars PROVE SoloInv'
  <1>1. TypeInv /\ LogInv /\ Grows
    BY NextGrows DEF IInv
  <1>2. CASE UNCHANGED vars
    <2>1. PICK t : t = workers[SchedulerProcess]
      OBVIOUS
    <2>2. workers' = [workers EXCEPT ![SchedulerProcess] = t] /\ UNCHANGED storeVars
      BY <1>1, <1>2, <2>1 DEF vars, TypeInv, TypeOK
    <2>3. SoloInHand(t)
      BY <2>1 DEF SoloInv
    <2> QED BY <1>1, <2>2, <2>3, SoloMoves
  <1>3. CASE SoloStep(SchedulerProcess)
    BY <1>1, <1>3, SoloRunDue, SoloNextDuePost, SoloLoadChannels, SoloGetLatest,
       SoloCheckDailyLimit, SoloPublish, SoloInsertAttempt, SoloReconcile, SoloStores,
       SoloLegacyPublish, SoloFaults DEF SoloStep
  <1> QED BY <1>1, <1>2, <1>3, SoloNext, SoloTick

\* What the process alone has read is true until it writes.
THEOREM SoloCorrect == Solo /\ Spec => [](Solo /\ IInv /\ DeliveryInv /\ SoloInv)
  <1>1. Init => SoloInv
    BY SoloInit
  <1>2. Solo /\ IInv /\ DeliveryInv /\ SoloInv /\ [Next]_vars => Solo' /\ SoloInv'
    BY NextSolo DEF Solo
  <1> QED BY <1>1, <1>2, DeliveryCorrect, PTL DEF Spec

\* With the scheduler process alone, whatever fails and wherever it crashes, a
\* post with an open channel stays scheduled and wakes no later than its retry.
THEOREM NothingForgottenCorrect == Solo /\ Spec => []NothingForgotten
  <1>1. SoloInv => NothingForgotten
    BY DEF SoloInv, OpenIsCovered, NothingForgotten, Open, Latest
  <1> QED BY <1>1, SoloCorrect, PTL

-------------------------------------------------------------------------------
(***************************************************************************)
(* Repeats: what was published is on the way to a row or a status, and a   *)
(* publish finds neither.                                                  *)
(***************************************************************************)
\* The worker, as far as RepeatsInv looks at it.
LEMMA RepeatsKept ==
    ASSUME TypeInv, NEW s, NEW t, RepeatsInv(s),
           \A p \in PostIds, c \in ChannelIds : Recorded(s, p, c) => Recorded(t, p, c)',
           \A p \in PostIds : Marked(s, p) => Marked(t, p)',
           published' = published, faults' = faults
    PROVE  \A p \in PostIds :
              /\ \A c \in ChannelIds :
                    published'[p][c] <= faults' + (IF Recorded(t, p, c)' THEN 1 ELSE 0)
              /\ published'[p][Fallback] <= faults' + (IF Marked(t, p)' THEN 1 ELSE 0)
  <1> SUFFICES ASSUME NEW p \in PostIds
               PROVE  /\ \A c \in ChannelIds :
                            published[p][c] <= faults + (IF Recorded(t, p, c)' THEN 1 ELSE 0)
                      /\ published[p][Fallback] <= faults + (IF Marked(t, p)' THEN 1 ELSE 0)
    OBVIOUS
  <1>1. faults \in Nat /\ published[p][Fallback] \in Nat
        /\ \A c \in ChannelIds : published[p][c] \in Nat
    BY DEF TypeInv, TypeOK, Targets
  <1>2. ASSUME NEW c \in ChannelIds
        PROVE  published[p][c] <= faults + (IF Recorded(t, p, c)' THEN 1 ELSE 0)
    <2>1. published[p][c] <= faults + (IF Recorded(s, p, c) THEN 1 ELSE 0)
      BY DEF RepeatsInv
    <2>2. CASE Recorded(s, p, c)
      BY <1>1, <2>1, <2>2
    <2>3. CASE ~Recorded(s, p, c)
      BY <1>1, <2>1, <2>3
    <2> QED BY <2>2, <2>3
  <1>3. published[p][Fallback] <= faults + (IF Marked(t, p)' THEN 1 ELSE 0)
    <2>1. published[p][Fallback] <= faults + (IF Marked(s, p) THEN 1 ELSE 0)
      BY DEF RepeatsInv
    <2>2. CASE Marked(s, p)
      BY <1>1, <2>1, <2>2
    <2>3. CASE ~Marked(s, p)
      BY <1>1, <2>1, <2>3
    <2> QED BY <2>2, <2>3
  <1> QED BY <1>2, <1>3

\* A row in the table stays: nothing is deleted.
LEMMA SentRowsStay ==
    ASSUME TypeInv, Grows, SoloInv', NEW p \in PostIds, NEW c \in ChannelIds,
           HasSentRow(p, c)
    PROVE  HasSentRow(p, c)'
  <1>1. Exists(p)'
    BY DEF SoloInv, SoloTables
  <1> QED BY <1>1, PostKept

\* A publish that is answered adds one, and what records it.
LEMMA DeliveryIsRecorded ==
    ASSUME TypeInv, NEW q \in PostIds, NEW u \in Targets,
           published' = [published EXCEPT ![q][u] = @ + 1]
    PROVE  /\ published'[q][u] = published[q][u] + 1
           /\ \A p \in PostIds, t \in Targets :
                 p # q \/ t # u => published'[p][t] = published[p][t]
  <1>1. published \in [PostIds -> [Targets -> Nat]]
    BY DEF TypeInv, TypeOK
  <1>2. \A p \in PostIds :
           published'[p] = IF p = q THEN [published[q] EXCEPT ![u] = published[q][u] + 1]
                           ELSE published[p]
    BY <1>1
  <1> QED BY <1>1, <1>2

LEMMA PublishRepeats ==
    ASSUME TypeInv, Grows, SoloInv, SoloInv', NothingLost,
           RepeatsInv(workers[SchedulerProcess]), Publish(SchedulerProcess)
    PROVE  RepeatsInv(workers[SchedulerProcess])'
  <1>1. PICK s \in Worker : s = workers[SchedulerProcess]
    BY WorkersAssumption DEF TypeInv, TypeOK
  <1>2. PICK o \in Outcomes :
           /\ Deliver(s.post.id, s.channel, o)
           /\ workers' = [workers EXCEPT ![SchedulerProcess] =
                 [s EXCEPT !.pc = "insert", !.result = ResultOf(s, o)]]
    BY <1>1 DEF Publish
  <1>3. PICK t : t = [s EXCEPT !.pc = "insert", !.result = ResultOf(s, o)]
    OBVIOUS
  <1>4. /\ t.post = s.post /\ t.channel = s.channel /\ t.pc = "insert"
        /\ t.result = ResultOf(s, o)
    BY <1>3 DEF Worker
  <1>5. /\ s.pc = "publish" /\ s.post.id \in PostIds /\ s.channel \in ChannelIds
        /\ SoloInHand(s)
    BY <1>1, WorkersAssumption DEF Publish, TypeInv, InHand, Snapshot, SoloInv
  <1>6. workers'[SchedulerProcess] = t
    BY <1>2, <1>3, WorkersAssumption DEF TypeInv, TypeOK
  <1>7. attempts' = attempts /\ posts' = posts /\ faults' = faults
    BY DEF Publish, storeVars
  <1>8. \A p, c : Recorded(s, p, c) => Recorded(t, p, c)'
    BY <1>5, <1>7 DEF Recorded, OnItsWay, HasSentRow, AttemptsOf
  <1>9. \A p : Marked(s, p) => Marked(t, p)'
    BY <1>5, <1>7 DEF Marked
  <1>10. CASE o # "ok"
    <2>1. published' = published
      BY <1>2, <1>10 DEF Deliver, NothingLost
    <2> QED BY <1>1, <1>6, <1>7, <1>8, <1>9, <2>1, RepeatsKept DEF RepeatsInv
  <1>11. CASE o = "ok"
    <2>1. PICK q \in PostIds, u \in ChannelIds : q = s.post.id /\ u = s.channel
      BY <1>5
    <2>2. published' = [published EXCEPT ![q][u] = @ + 1] /\ u \in Targets
      BY <1>2, <1>11, <2>1 DEF Deliver, Targets
    <2>3. /\ published'[q][u] = published[q][u] + 1
          /\ \A p \in PostIds, v \in Targets :
                p # q \/ v # u => published'[p][v] = published[p][v]
      BY <2>2, DeliveryIsRecorded
    <2>4. Recorded(t, q, u)'
      BY <1>4, <1>11, <2>1 DEF Recorded, OnItsWay, ResultOf
    <2>5. ~Recorded(s, q, u)
      BY <1>5, <2>1 DEF SoloInHand, Recorded, OnItsWay, HasSentRow
    <2>6. RepeatsInv(s)
      BY <1>1
    <2>7. \A p \in PostIds, v \in Targets : published[p][v] \in Nat /\ faults \in Nat
      BY DEF TypeInv, TypeOK
    <2>8. ASSUME NEW p \in PostIds, NEW c \in ChannelIds
          PROVE  published'[p][c] <= faults + (IF Recorded(t, p, c)' THEN 1 ELSE 0)
      <3>1. published[p][c] <= faults + (IF Recorded(s, p, c) THEN 1 ELSE 0)
        BY <2>6 DEF RepeatsInv
      <3>2. c \in Targets
        BY DEF Targets
      <3>3. CASE p = q /\ c = u
        BY <2>3, <2>4, <2>5, <2>7, <3>1, <3>2, <3>3
      <3>4. CASE p # q \/ c # u
        <4>1. published'[p][c] = published[p][c]
          BY <2>3, <3>2, <3>4
        <4>2. CASE Recorded(s, p, c)
          BY <1>8, <2>7, <3>1, <3>2, <4>1, <4>2
        <4>3. CASE ~Recorded(s, p, c)
          BY <2>7, <3>1, <3>2, <4>1, <4>3
        <4> QED BY <4>2, <4>3
      <3> QED BY <3>3, <3>4
    <2>9. ASSUME NEW p \in PostIds
          PROVE  published'[p][Fallback] <= faults + (IF Marked(t, p)' THEN 1 ELSE 0)
      <3>1. published[p][Fallback] <= faults + (IF Marked(s, p) THEN 1 ELSE 0)
        BY <2>6 DEF RepeatsInv
      <3>2. Fallback \in Targets /\ Fallback # u
        BY FallbackAssumption DEF Targets
      <3>3. published'[p][Fallback] = published[p][Fallback]
        BY <2>3, <3>2
      <3>4. CASE Marked(s, p)
        BY <1>9, <2>7, <3>1, <3>2, <3>3, <3>4
      <3>5. CASE ~Marked(s, p)
        BY <2>7, <3>1, <3>2, <3>3, <3>5
      <3> QED BY <3>4, <3>5
    <2> QED BY <1>6, <1>7, <2>8, <2>9 DEF RepeatsInv
  <1> QED BY <1>10, <1>11

LEMMA LegacyRepeats ==
    ASSUME TypeInv, Grows, SoloInv, SoloInv', NothingLost,
           RepeatsInv(workers[SchedulerProcess]), LegacyPublish(SchedulerProcess)
    PROVE  RepeatsInv(workers[SchedulerProcess])'
  <1>1. PICK s \in Worker : s = workers[SchedulerProcess]
    BY WorkersAssumption DEF TypeInv, TypeOK
  <1>2. PICK o \in Outcomes :
           /\ Deliver(s.post.id, Fallback, o)
           /\ \E t : /\ workers' = [workers EXCEPT ![SchedulerProcess] = t]
                     /\ o = "ok" => t = [s EXCEPT !.pc = "mark"]
    BY <1>1 DEF LegacyPublish
  <1>3. PICK t : /\ workers' = [workers EXCEPT ![SchedulerProcess] = t]
                 /\ o = "ok" => t = [s EXCEPT !.pc = "mark"]
    BY <1>2
  <1>4. /\ s.pc = "legacy" /\ s.post.id \in PostIds /\ SoloInHand(s)
    BY <1>1, WorkersAssumption DEF LegacyPublish, TypeInv, InHand, Snapshot, SoloInv
  <1>5. workers'[SchedulerProcess] = t
    BY <1>3, WorkersAssumption DEF TypeInv, TypeOK
  <1>6. attempts' = attempts /\ posts' = posts /\ faults' = faults
    BY DEF LegacyPublish, storeVars
  <1>7. \A p, c : Recorded(s, p, c) => Recorded(t, p, c)'
    BY <1>4, <1>6 DEF Recorded, OnItsWay, HasSentRow, AttemptsOf
  <1>8. \A p : Marked(s, p) => Marked(t, p)'
    BY <1>4, <1>6 DEF Marked
  <1>9. CASE o # "ok"
    <2>1. published' = published
      BY <1>2, <1>9 DEF Deliver, NothingLost
    <2> QED BY <1>1, <1>5, <1>6, <1>7, <1>8, <2>1, RepeatsKept DEF RepeatsInv
  <1>10. CASE o = "ok"
    <2>1. PICK q \in PostIds : q = s.post.id
      BY <1>4
    <2>2. published' = [published EXCEPT ![q][Fallback] = @ + 1] /\ Fallback \in Targets
      BY <1>2, <1>10, <2>1 DEF Deliver, Targets
    <2>3. /\ published'[q][Fallback] = published[q][Fallback] + 1
          /\ \A p \in PostIds, v \in Targets :
                p # q \/ v # Fallback => published'[p][v] = published[p][v]
      BY <2>2, DeliveryIsRecorded
    <2>4. Marked(t, q)'
      <3>1. t.pc = "mark" /\ t.post = s.post
        BY <1>3, <1>10 DEF Worker
      <3> QED BY <2>1, <3>1 DEF Marked
    <2>5. ~Marked(s, q)
      BY <1>4, <2>1 DEF SoloInHand, Picked, Marked
    <2>6. RepeatsInv(s)
      BY <1>1
    <2>7. \A p \in PostIds, v \in Targets : published[p][v] \in Nat /\ faults \in Nat
      BY DEF TypeInv, TypeOK
    <2>8. ASSUME NEW p \in PostIds, NEW c \in ChannelIds
          PROVE  published'[p][c] <= faults + (IF Recorded(t, p, c)' THEN 1 ELSE 0)
      <3>1. published[p][c] <= faults + (IF Recorded(s, p, c) THEN 1 ELSE 0)
        BY <2>6 DEF RepeatsInv
      <3>2. c \in Targets /\ c # Fallback
        BY FallbackAssumption DEF Targets
      <3>3. published'[p][c] = published[p][c]
        BY <2>3, <3>2
      <3>4. CASE Recorded(s, p, c)
        BY <1>7, <2>7, <3>1, <3>2, <3>3, <3>4
      <3>5. CASE ~Recorded(s, p, c)
        BY <2>7, <3>1, <3>2, <3>3, <3>5
      <3> QED BY <3>4, <3>5
    <2>9. ASSUME NEW p \in PostIds
          PROVE  published'[p][Fallback] <= faults + (IF Marked(t, p)' THEN 1 ELSE 0)
      <3>1. published[p][Fallback] <= faults + (IF Marked(s, p) THEN 1 ELSE 0)
        BY <2>6 DEF RepeatsInv
      <3>2. Fallback \in Targets
        BY DEF Targets
      <3>3. CASE p = q
        BY <2>3, <2>4, <2>5, <2>7, <3>1, <3>2, <3>3
      <3>4. CASE p # q /\ Marked(s, p)
        BY <1>8, <2>3, <2>7, <3>1, <3>2, <3>4
      <3>5. CASE p # q /\ ~Marked(s, p)
        BY <2>3, <2>7, <3>1, <3>2, <3>5
      <3> QED BY <3>3, <3>4, <3>5
    <2> QED BY <1>5, <1>6, <2>8, <2>9 DEF RepeatsInv
  <1> QED BY <1>9, <1>10

LEMMA FaultRepeats ==
    ASSUME TypeInv, RepeatsInv(workers[SchedulerProcess]),
           published' = published, faults' = faults + 1
    PROVE  RepeatsInv(workers[SchedulerProcess])'
  <1>1. \A p \in PostIds, u \in Targets : published[p][u] \in Nat /\ faults \in Nat
    BY DEF TypeInv, TypeOK
  <1>2. \A p \in PostIds, u \in Targets : published[p][u] <= faults + 1
    BY <1>1 DEF RepeatsInv, Targets
  <1>3. \A p \in PostIds, u \in Targets : \A i \in {0, 1} :
           published[p][u] <= faults + 1 + i
    BY <1>1, <1>2
  <1> QED BY <1>1, <1>2, <1>3 DEF RepeatsInv, Targets

LEMMA InsertRepeats ==
    ASSUME TypeInv, Grows, SoloInv, SoloInv',
           RepeatsInv(workers[SchedulerProcess]), InsertAttempt(SchedulerProcess)
    PROVE  RepeatsInv(workers[SchedulerProcess])'
  <1>1. PICK s, t : s = workers[SchedulerProcess] /\ t = workers'[SchedulerProcess]
    OBVIOUS
  <1>2. PICK row : row = RowOf(s)
    OBVIOUS
  <1>3. attempts' = attempts \cup {row}
    BY <1>1, <1>2, SoloInserts
  <1>4. /\ s.pc = "insert" /\ posts' = posts /\ published' = published
        /\ faults' = faults \/ faults' = faults + 1
    BY <1>1 DEF InsertAttempt
  <1>5. ASSUME NEW p \in PostIds, NEW c \in ChannelIds, Recorded(s, p, c)
        PROVE  HasSentRow(p, c)'
    <2>1. CASE HasSentRow(p, c)
      BY <2>1, SentRowsStay
    <2>2. CASE OnItsWay(s, p, c)
      BY <1>2, <1>3, <2>2 DEF OnItsWay, RowOf, HasSentRow, AttemptsOf
    <2> QED BY <1>5, <2>1, <2>2 DEF Recorded
  <1>6. \A p \in PostIds, c \in ChannelIds : Recorded(s, p, c) => Recorded(t, p, c)'
    BY <1>5 DEF Recorded
  <1>7. \A p \in PostIds : Marked(s, p) => Marked(t, p)'
    BY <1>4 DEF Marked
  <1>8. CASE faults' = faults
    BY <1>1, <1>4, <1>6, <1>7, <1>8, RepeatsKept DEF RepeatsInv
  <1> QED BY <1>4, <1>8, FaultRepeats

\* A post whose state is stored was not sent before, unless it is now.
LEMMA StoreRepeats ==
    ASSUME TypeInv, Grows, SoloInv, SoloInv', RepeatsInv(workers[SchedulerProcess]),
           StorePostState(SchedulerProcess) \/ LegacyMarkSent(SchedulerProcess)
    PROVE  RepeatsInv(workers[SchedulerProcess])'
  <1>1. PICK s, t : s = workers[SchedulerProcess] /\ t = workers'[SchedulerProcess]
    OBVIOUS
  <1>2. /\ attempts' = attempts /\ published' = published /\ faults' = faults
        /\ s.pc \in {"store", "mark"}
    BY <1>1 DEF StorePostState, LegacyMarkSent
  <1>3. \A p \in PostIds, c \in ChannelIds : Recorded(s, p, c) => Recorded(t, p, c)'
    BY <1>2 DEF Recorded, OnItsWay, HasSentRow, AttemptsOf
  <1>4. PICK q \in PostIds : q = s.post.id
    BY <1>1, <1>2, WorkersAssumption DEF TypeInv, InHand, Snapshot
  <1>5. Exists(q) /\ posts \in [PostIds -> PostRow \cup {Null}]
    BY DEF SoloInv, SoloTables, TypeInv, TypeOK, StoreTypeOK
  <1>6. ASSUME NEW p \in PostIds, Marked(s, p) PROVE posts'[p].status = "sent"
    <2>1. CASE StorePostState(SchedulerProcess)
      <3>1. PICK row : posts' = [posts EXCEPT ![q] = row]
        BY <1>1, <1>4, <1>5, <2>1 DEF StorePostState, SetPostState
      <3>2. s.pc = "store" /\ posts[q].status = "scheduled"
        BY <1>1, <1>4, <2>1 DEF StorePostState, SoloInv, SoloInHand, Picked
      <3>3. p # q /\ posts[p].status = "sent"
        BY <1>6, <3>2 DEF Marked
      <3> QED BY <1>5, <3>1, <3>3
    <2>2. CASE LegacyMarkSent(SchedulerProcess)
      <3>1. PICK row : row = [posts[q] EXCEPT !.status = "sent", !.nextRetryAt = Null]
        OBVIOUS
      <3>2. row.status = "sent"
        BY <1>5, <3>1 DEF Exists, PostRow
      <3>3. posts' = [posts EXCEPT ![q] = row]
        BY <1>1, <1>4, <1>5, <2>2, <3>1 DEF LegacyMarkSent, MarkSent
      <3>4. p = q \/ posts[p].status = "sent"
        BY <1>4, <1>6 DEF Marked
      <3> QED BY <1>5, <3>2, <3>3, <3>4
    <2> QED BY <2>1, <2>2
  <1>7. \A p \in PostIds : Marked(s, p) => Marked(t, p)'
    BY <1>6 DEF Marked
  <1> QED BY <1>1, <1>2, <1>3, <1>7, RepeatsKept DEF RepeatsInv

LEMMA NextRepeats ==
    ASSUME Solo, TypeInv, Grows, SoloInv, SoloInv', NothingLost,
           RepeatsInv(workers[SchedulerProcess]), [Next]_vars
    PROVE  RepeatsInv(workers[SchedulerProcess])'
  <1>1. PICK s, t : s = workers[SchedulerProcess] /\ t = workers'[SchedulerProcess]
    OBVIOUS
  <1>2. CASE /\ attempts' = attempts /\ posts' = posts
             /\ published' = published /\ faults' = faults
             /\ t = s \/ s.pc \notin {"insert", "mark"}
    <2>1. \A p, c : Recorded(s, p, c) => Recorded(t, p, c)'
      BY <1>2 DEF Recorded, OnItsWay, HasSentRow, AttemptsOf
    <2>2. \A p : Marked(s, p) => Marked(t, p)'
      BY <1>2 DEF Marked
    <2> QED BY <1>1, <1>2, <2>1, <2>2, RepeatsKept DEF RepeatsInv
  <1>3. CASE Tick \/ UNCHANGED vars
    BY <1>1, <1>2, <1>3 DEF Tick, vars, storeVars
  <1>4. CASE \/ RunDue(SchedulerProcess) \/ NextDuePost(SchedulerProcess)
             \/ LoadChannels(SchedulerProcess) \/ GetLatest(SchedulerProcess)
             \/ CheckDailyLimit(SchedulerProcess) \/ Reconcile(SchedulerProcess)
    BY <1>1, <1>2, <1>4 DEF RunDue, NextDuePost, LoadChannels, GetLatest,
       CheckDailyLimit, Reconcile, storeVars
  <1>5. CASE Crash(SchedulerProcess) \/ StatementFails(SchedulerProcess)
    BY <1>5, FaultRepeats DEF Crash, StatementFails
  <1> QED BY <1>3, <1>4, <1>5, SoloNext, PublishRepeats, LegacyRepeats, InsertRepeats,
          StoreRepeats DEF SoloStep

\* With the scheduler process alone, and no answer lost, a target gets a post
\* again only after a crash or a statement that failed: at most once for each.
THEOREM RepeatsCorrect ==
    Solo /\ NothingLost /\ Spec => []RepeatsNeedFaults
  <1>1. Init => RepeatsInv(workers[SchedulerProcess])
    BY FallbackAssumption DEF Init, RepeatsInv, Targets
  <1>2. /\ Solo /\ IInv /\ DeliveryInv /\ SoloInv /\ NothingLost
        /\ RepeatsInv(workers[SchedulerProcess]) /\ [Next]_vars
        => NothingLost' /\ RepeatsInv(workers[SchedulerProcess])'
    BY NextRepeats, NextSolo, NextGrows DEF IInv, NothingLost
  <1>3. IInv /\ RepeatsInv(workers[SchedulerProcess]) => RepeatsNeedFaults
    <2> SUFFICES ASSUME IInv, RepeatsInv(workers[SchedulerProcess]),
                        NEW p \in PostIds, NEW u \in Targets
                 PROVE  published[p][u] <= 1 + faults
      BY DEF RepeatsNeedFaults
    <2>1. published[p][u] \in Nat /\ faults \in Nat
      BY DEF IInv, TypeInv, TypeOK
    <2>2. published[p][u] <= faults + 1 \/ published[p][u] <= faults
      BY <2>1 DEF RepeatsInv, Targets
    <2> QED BY <2>1, <2>2
  <1> QED BY <1>1, <1>2, <1>3, SoloCorrect, PTL DEF Spec

\* With the scheduler process alone, and no answer lost, no target gets a post
\* twice as long as nothing has failed.
THEOREM SoloSentOnce == Solo /\ NothingLost /\ Spec => [](faults = 0 => SentOnce)
  <1>1. RepeatsNeedFaults => (faults = 0 => SentOnce)
    BY DEF RepeatsNeedFaults, SentOnce
  <1> QED BY <1>1, RepeatsCorrect, PTL

\* With the scheduler process alone no post is deleted while it waits, so that
\* none goes both to a channel and to the fallback publisher.
THEOREM SoloFallback == Solo /\ Spec => []FallbackOrChannels
  <1>1. /\ IInv /\ SoloInv
        /\ \A p \in PostIds : Exists(p) /\ published[p][Fallback] > 0 =>
               \A c \in ChannelIds : published[p][c] = 0
        => FallbackOrChannels
    BY DEF SoloInv, SoloTables, FallbackOrChannels
  <1> QED BY <1>1, FallbackNeedsDeletion, SoloCorrect, PTL
-------------------------------------------------------------------------------
(***************************************************************************)
(* The daily limit: what went out on a day is in the table, on its way to  *)
(* it, or a fault.                                                         *)
(***************************************************************************)
RowsOn(c, d) ==
    {r \in attempts : r.channel = c /\ r.status = "sent" /\ DayOf(r.at) = d}

\* Published, and on the way to a row that counts for day d.
Underway(s, c, d) ==
    /\ s.pc = "insert" /\ s.result.status = "sent"
    /\ s.channel = c /\ DayOf(s.at) = d

OutInv(s) ==
    /\ sentOut \in [ChannelIds -> [Days -> Nat]]
    /\ \A c \in ChannelIds, d \in Days :
          sentOut[c][d] <= Cardinality(RowsOn(c, d)) + faults
                              + (IF Underway(s, c, d) THEN 1 ELSE 0)

\* The rows of a day are finitely many.
LEMMA RowsOnFinite ==
    ASSUME TypeInv, NEW c, NEW d
    PROVE  IsFiniteSet(RowsOn(c, d)) /\ Cardinality(RowsOn(c, d)) \in Nat
  BY FS_Subset, FS_CardinalityType DEF RowsOn, TypeInv, TypeOK, StoreTypeOK

\* The count grows by one where something goes out.
LEMMA Counted ==
    ASSUME sentOut \in [ChannelIds -> [Days -> Nat]], Count \/ UNCHANGED historyVars
    PROVE  /\ sentOut' \in [ChannelIds -> [Days -> Nat]]
           /\ \A c \in ChannelIds, d \in Days :
                 \/ sentOut'[c][d] = sentOut[c][d]
                 \/ /\ sentOut'[c][d] = sentOut[c][d] + 1
                    /\ \E w \in Workers : GoesOut(w, c, d)
  <1>1. CASE UNCHANGED historyVars
    BY <1>1 DEF historyVars
  <1>2. CASE Count
    <2>1. PICK out : out = [c \in ChannelIds |-> [d \in Days |->
                               \E w \in Workers : GoesOut(w, c, d)]]
      OBVIOUS
    <2>2. sentOut' = [c \in ChannelIds |-> [d \in Days |->
                         IF \E w \in Workers : GoesOut(w, c, d)
                         THEN sentOut[c][d] + 1 ELSE sentOut[c][d]]]
      BY <1>2 DEF Count
    <2>3. ASSUME NEW c \in ChannelIds, NEW d \in Days
          PROVE  /\ sentOut'[c][d] = IF \E w \in Workers : GoesOut(w, c, d)
                                     THEN sentOut[c][d] + 1 ELSE sentOut[c][d]
                 /\ sentOut'[c][d] \in Nat
      BY <2>2
    <2>4. sentOut' \in [ChannelIds -> [Days -> Nat]]
      BY <2>2, <2>3
    <2> QED BY <2>3, <2>4
  <1> QED BY <1>1, <1>2

\* A step with which nothing goes out, no row is lost, and what is under way
\* stays so or is a fault.
LEMMA OutKept ==
    ASSUME TypeInv, TypeInv', NEW s, NEW t, OutInv(s), Count \/ UNCHANGED historyVars,
           \A w \in Workers, c \in ChannelIds, d \in Days : ~GoesOut(w, c, d),
           attempts \subseteq attempts', faults' \in {faults, faults + 1},
           faults' = faults =>
              \A c \in ChannelIds, d \in Days : Underway(s, c, d) => Underway(t, c, d)'
    PROVE  OutInv(t)'
  <1> SUFFICES ASSUME NEW c \in ChannelIds, NEW d \in Days
               PROVE  sentOut'[c][d] <= Cardinality(RowsOn(c, d))' + faults'
                                           + (IF Underway(t, c, d)' THEN 1 ELSE 0)
    BY Counted DEF OutInv
  <1>1. IsFiniteSet(RowsOn(c, d)')
    BY FS_Subset DEF RowsOn, TypeInv, TypeOK, StoreTypeOK
  <1>2. PICK a, a2, f, f2, n \in Nat :
           /\ a = Cardinality(RowsOn(c, d)) /\ a2 = Cardinality(RowsOn(c, d))'
           /\ f = faults /\ f2 = faults' /\ n = sentOut[c][d]
    <2>1. Cardinality(RowsOn(c, d)') \in Nat
      BY <1>1, FS_CardinalityType
    <2> QED BY <2>1, RowsOnFinite DEF OutInv, TypeInv, TypeOK
  <1>3. a <= a2
    <2>1. RowsOn(c, d) \subseteq RowsOn(c, d)'
      BY DEF RowsOn
    <2> QED BY <1>1, <1>2, <2>1, FS_Subset
  <1>4. sentOut'[c][d] = n
    BY <1>2, Counted DEF OutInv
  <1>5. n <= a + f + (IF Underway(s, c, d) THEN 1 ELSE 0)
    BY <1>2 DEF OutInv
  <1>6. CASE f2 = f + 1
    <2>1. n <= a2 + f2
      BY <1>2, <1>3, <1>5, <1>6
    <2> QED BY <1>2, <1>4, <2>1
  <1>7. CASE f2 = f /\ Underway(s, c, d)
    <2>1. Underway(t, c, d)'
      BY <1>2, <1>7
    <2>2. n <= a2 + f2 + 1
      BY <1>2, <1>3, <1>5, <1>7
    <2> QED BY <1>2, <1>4, <2>1, <2>2
  <1>8. CASE f2 = f /\ ~Underway(s, c, d)
    <2>1. n <= a2 + f2
      BY <1>2, <1>3, <1>5, <1>8
    <2> QED BY <1>2, <1>4, <2>1
  <1> QED BY <1>2, <1>6, <1>7, <1>8
\* The one post that goes out is under way to its row.
LEMMA PublishOut ==
    ASSUME Solo, TypeInv, TypeInv', SoloInv, NothingLost, NEW s, NEW t,
           s = workers[SchedulerProcess], t = workers'[SchedulerProcess],
           OutInv(s), Count \/ UNCHANGED historyVars, Publish(SchedulerProcess)
    PROVE  OutInv(t)'
  <1>1. s \in Worker /\ s.pc = "publish" /\ attempts' = attempts /\ faults' = faults
    BY WorkersAssumption DEF TypeInv, TypeOK, Publish, storeVars
  <1>2. PICK o \in Outcomes :
           /\ Deliver(s.post.id, s.channel, o)
           /\ workers' = [workers EXCEPT ![SchedulerProcess] =
                 [s EXCEPT !.pc = "insert", !.result = ResultOf(s, o)]]
    BY DEF Publish
  <1>3. t = [s EXCEPT !.pc = "insert", !.result = ResultOf(s, o)]
    BY <1>2, WorkersAssumption DEF TypeInv, TypeOK
  <1>4. /\ t.channel = s.channel /\ t.at = s.at /\ t.pc = "insert"
        /\ t.result = ResultOf(s, o)
    BY <1>1, <1>3 DEF Worker
  <1>5. o # "ok" => published' = published
    BY <1>2 DEF Deliver, NothingLost
  <1> SUFFICES ASSUME NEW c \in ChannelIds, NEW d \in Days
               PROVE  sentOut'[c][d] <= Cardinality(RowsOn(c, d))' + faults'
                                           + (IF Underway(t, c, d)' THEN 1 ELSE 0)
    BY Counted DEF OutInv
  <1>6. PICK a, f, n \in Nat :
           a = Cardinality(RowsOn(c, d)) /\ f = faults /\ n = sentOut[c][d]
    BY RowsOnFinite DEF OutInv, TypeInv, TypeOK
  <1>7. Cardinality(RowsOn(c, d))' = a /\ faults' = f
    BY <1>1, <1>6 DEF RowsOn
  <1>8. n <= a + f
    BY <1>1, <1>6 DEF OutInv, Underway
  <1>9. CASE sentOut'[c][d] = sentOut[c][d]
    BY <1>6, <1>7, <1>8, <1>9
  <1>10. CASE sentOut'[c][d] = sentOut[c][d] + 1 /\ GoesOut(SchedulerProcess, c, d)
    <2>1. s.channel = c /\ DayOf(s.at) = d
      BY <1>10 DEF GoesOut
    <2>2. published' # published
      <3>1. published[s.post.id][c] \in Nat
        BY <1>1, <2>1, WorkersAssumption DEF TypeInv, TypeOK, InHand, Snapshot, Targets
      <3> QED BY <1>10, <3>1 DEF GoesOut
    <2>3. Underway(t, c, d)'
      BY <1>4, <1>5, <2>1, <2>2 DEF Underway, ResultOf
    <2>4. n + 1 <= a + f + 1
      BY <1>8
    <2> QED BY <1>6, <1>7, <1>10, <2>3, <2>4
  <1> QED BY <1>9, <1>10, Counted DEF Solo, OutInv

\* A row that counts is new: its number was free.
LEMMA InsertOut ==
    ASSUME Solo, TypeInv, TypeInv', SoloInv, NEW s, NEW t,
           s = workers[SchedulerProcess], t = workers'[SchedulerProcess],
           OutInv(s), Count \/ UNCHANGED historyVars, InsertAttempt(SchedulerProcess)
    PROVE  OutInv(t)'
  <1>1. s.pc = "insert" /\ (faults' = faults \/ faults' = faults + 1)
    BY DEF InsertAttempt
  <1>2. PICK row : row = RowOf(s)
    OBVIOUS
  <1>3. attempts' = attempts \cup {row} /\ row \notin attempts
    BY <1>2, SoloInserts DEF CanInsertAttempt, SameTarget
  <1>4. row.channel = s.channel /\ row.at = s.at /\ row.status = s.result.status
    BY <1>2 DEF RowOf
  <1> SUFFICES ASSUME NEW c \in ChannelIds, NEW d \in Days
               PROVE  sentOut'[c][d] <= Cardinality(RowsOn(c, d))' + faults'
                                           + (IF Underway(t, c, d)' THEN 1 ELSE 0)
    BY Counted DEF OutInv
  <1>5. ~\E w \in Workers : GoesOut(w, c, d)
    BY <1>1 DEF Solo, GoesOut
  <1>6. IsFiniteSet(RowsOn(c, d)) /\ IsFiniteSet(RowsOn(c, d)')
    BY RowsOnFinite, FS_Subset DEF RowsOn, TypeInv, TypeOK, StoreTypeOK
  <1>7. PICK a, a2, f, f2, n \in Nat :
           /\ a = Cardinality(RowsOn(c, d)) /\ a2 = Cardinality(RowsOn(c, d)')
           /\ f = faults /\ f2 = faults' /\ n = sentOut[c][d]
    BY <1>6, FS_CardinalityType DEF OutInv, TypeInv, TypeOK
  <1>8. sentOut'[c][d] = n /\ f <= f2
    BY <1>1, <1>5, <1>7, Counted DEF OutInv
  <1>9. CASE Underway(s, c, d)
    <2>1. RowsOn(c, d)' = RowsOn(c, d) \cup {row} /\ row \notin RowsOn(c, d)
      BY <1>3, <1>4, <1>9 DEF RowsOn, Underway
    <2>2. a2 = a + 1
      BY <1>6, <1>7, <2>1, FS_AddElement
    <2>3. n <= a + f + 1
      BY <1>7, <1>9 DEF OutInv
    <2>4. n <= a2 + f2
      BY <1>8, <2>2, <2>3
    <2> QED BY <1>7, <1>8, <2>4
  <1>10. CASE ~Underway(s, c, d)
    <2>1. RowsOn(c, d)' = RowsOn(c, d)
      BY <1>1, <1>3, <1>4, <1>10 DEF RowsOn, Underway
    <2>2. n <= a + f
      BY <1>7, <1>10 DEF OutInv
    <2>3. n <= a2 + f2
      BY <1>7, <1>8, <2>1, <2>2
    <2> QED BY <1>7, <1>8, <2>3
  <1> QED BY <1>9, <1>10

\* The same of every step.
LEMMA NextOut ==
    ASSUME Solo, TypeInv, TypeInv', SoloInv, NothingLost,
           OutInv(workers[SchedulerProcess]), [Next /\ Count]_historyVars
    PROVE  OutInv(workers[SchedulerProcess])'
  <1>1. PICK s, t : s = workers[SchedulerProcess] /\ t = workers'[SchedulerProcess]
    OBVIOUS
  <1>2. (Count \/ UNCHANGED historyVars) /\ [Next]_vars
    BY DEF historyVars
  <1>3. CASE Tick \/ UNCHANGED vars
    <2>1. /\ attempts' = attempts /\ faults' = faults /\ workers' = workers
      BY <1>3 DEF Tick, vars, storeVars
    <2>2. \A w \in Workers, c \in ChannelIds, d \in Days : ~GoesOut(w, c, d)
      BY <2>1 DEF GoesOut
    <2>3. \A c, d : Underway(s, c, d) => Underway(t, c, d)'
      BY <1>1, <2>1 DEF Underway
    <2> QED BY <1>1, <1>2, <2>1, <2>2, <2>3, OutKept
  <1>4. CASE \/ RunDue(SchedulerProcess) \/ NextDuePost(SchedulerProcess)
             \/ LoadChannels(SchedulerProcess) \/ GetLatest(SchedulerProcess)
             \/ CheckDailyLimit(SchedulerProcess) \/ Reconcile(SchedulerProcess)
             \/ StorePostState(SchedulerProcess) \/ LegacyPublish(SchedulerProcess)
             \/ LegacyMarkSent(SchedulerProcess)
    <2>1. s.pc \notin {"insert", "publish"} /\ attempts' = attempts /\ faults' = faults
      BY <1>1, <1>4 DEF RunDue, NextDuePost, LoadChannels, GetLatest, CheckDailyLimit,
         Reconcile, StorePostState, LegacyPublish, LegacyMarkSent, storeVars
    <2>2. \A w \in Workers, c \in ChannelIds, d \in Days : ~GoesOut(w, c, d)
      BY <1>1, <2>1 DEF Solo, GoesOut
    <2>3. \A c, d : ~Underway(s, c, d)
      BY <2>1 DEF Underway
    <2> QED BY <1>1, <1>2, <2>1, <2>2, <2>3, OutKept
  <1>5. CASE Crash(SchedulerProcess) \/ StatementFails(SchedulerProcess)
    <2>1. attempts' = attempts /\ published' = published /\ faults' = faults + 1
      BY <1>5 DEF Crash, StatementFails, storeVars
    <2>2. \A w \in Workers, c \in ChannelIds, d \in Days : ~GoesOut(w, c, d)
      <3>1. ASSUME NEW w \in Workers, NEW c \in ChannelIds, NEW d \in Days,
                   GoesOut(w, c, d)
            PROVE  FALSE
        <4>1. published[workers[w].post.id][c] \in Nat
          BY <3>1 DEF GoesOut, TypeInv, TypeOK, InHand, Snapshot, Targets
        <4> QED BY <2>1, <3>1, <4>1 DEF GoesOut
      <3> QED BY <3>1
    <2>3. faults' # faults
      BY <2>1 DEF TypeInv, TypeOK
    <2> QED BY <1>1, <1>2, <2>1, <2>2, <2>3, OutKept
  <1> QED BY <1>1, <1>2, <1>3, <1>4, <1>5, PublishOut, InsertOut, SoloNext DEF SoloStep

\* The rows of the day and what is under way fit the limit.
LEMMA OutBounds ==
    ASSUME Solo, TypeInv, RoomInv, OutInv(workers[SchedulerProcess])
    PROVE  DailyLimitRespected
  <1>1. PICK s \in Worker : s = workers[SchedulerProcess]
    BY WorkersAssumption DEF TypeInv, TypeOK
  <1> SUFFICES ASSUME NEW c \in ChannelIds, NEW d \in Days,
                      Policy[c].maxPostsPerDay # Null
               PROVE  sentOut[c][d] <= Policy[c].maxPostsPerDay + faults
    BY DEF DailyLimitRespected
  <1>2. IsFiniteSet(Workers) /\ Cardinality(Workers) = 1
    BY FS_Singleton DEF Solo
  <1>3. PICK a, f, n, m \in Nat :
           /\ a = Cardinality(RowsOn(c, d)) /\ f = faults /\ n = sentOut[c][d]
           /\ m = Policy[c].maxPostsPerDay
    BY RowsOnFinite, LimitType DEF OutInv, TypeInv, TypeOK
  <1>4. n <= a + f + (IF Underway(s, c, d) THEN 1 ELSE 0)
    BY <1>1, <1>3 DEF OutInv
  <1>5. ASSUME NEW t \in Nat, DayOf(t) = d
        PROVE  /\ a <= m
               /\ Underway(s, c, d) => a + 1 <= m
    <2>1. SentToday(c, t) = RowsOn(c, d)
      BY <1>5 DEF SentToday, RowsOn
    <2>2. PICK k \in Nat : k = Cardinality(Racing(c, t))
      BY <1>2, RacingFinite
    <2>3. a + k < m + 1
      BY <1>2, <1>3, <2>1, <2>2 DEF RoomInv, Moments
    <2>4. ASSUME Underway(s, c, d) PROVE k # 0
      <3>1. SchedulerProcess \in Racing(c, t)
        BY <1>1, <1>5, <2>4, WorkersAssumption DEF Racing, PastCheck, Underway
      <3> QED BY <1>2, <2>2, <3>1, RacingFinite, FS_EmptySet
    <2> QED BY <2>3, <2>4
  <1>6. CASE Underway(s, c, d)
    <2>1. a + 1 <= m
      BY <1>1, <1>5, <1>6 DEF Underway, Worker, Moments
    <2> QED BY <1>3, <1>4, <1>6, <2>1
  <1>7. CASE ~Underway(s, c, d) /\ RowsOn(c, d) # {}
    <2>1. PICK r : r \in RowsOn(c, d)
      BY <1>7
    <2>2. r.at \in Nat /\ DayOf(r.at) = d
      BY <2>1 DEF RowsOn, TypeInv, TypeOK, StoreTypeOK, AttemptRow, Moments
    <2>3. a <= m
      BY <1>5, <2>2
    <2> QED BY <1>3, <1>4, <1>7, <2>3
  <1>8. CASE ~Underway(s, c, d) /\ RowsOn(c, d) = {}
    <2>1. a = 0
      BY <1>3, <1>8, FS_EmptySet
    <2> QED BY <1>3, <1>4, <1>8, <2>1
  <1> QED BY <1>6, <1>7, <1>8

\* With the scheduler process alone, and no answer lost, no channel gets more
\* posts in the attempts of a UTC day than its policy allows and one more for
\* each crash or failing statement: what the check of the limit does not count
\* is what a fault kept from the table.
THEOREM SoloDailyLimit == Solo /\ NothingLost /\ CountedSpec => []DailyLimitRespected
  <1>1. CountedSpec => Spec
    <2>1. [Next /\ Count]_historyVars => [Next]_vars
      BY DEF historyVars
    <2> QED BY <2>1, PTL DEF CountedSpec, Spec
  <1>2. Init /\ HistoryInit => OutInv(workers[SchedulerProcess])
    <2> SUFFICES ASSUME Init, HistoryInit PROVE OutInv(workers[SchedulerProcess])
      OBVIOUS
    <2>1. \A c \in ChannelIds, d \in Days : sentOut[c][d] = 0
      BY DEF HistoryInit
    <2>2. \A c, d : RowsOn(c, d) = {}
      BY DEF Init, RowsOn
    <2>3. workers[SchedulerProcess].pc = "idle"
      BY WorkersAssumption DEF Init, Idle
    <2>4. sentOut \in [ChannelIds -> [Days -> Nat]]
      BY DEF HistoryInit
    <2>5. faults = 0 /\ \A c, d : ~Underway(workers[SchedulerProcess], c, d)
      BY <2>3 DEF Init, Underway
    <2>6. Cardinality({}) = 0
      BY FS_EmptySet
    <2>7. ASSUME NEW c \in ChannelIds, NEW d \in Days
          PROVE  sentOut[c][d] <= Cardinality(RowsOn(c, d)) + faults
                   + (IF Underway(workers[SchedulerProcess], c, d) THEN 1 ELSE 0)
      BY <2>1, <2>2, <2>5, <2>6
    <2> QED BY <2>4, <2>7 DEF OutInv
  <1>3. /\ Solo /\ IInv /\ IInv' /\ SoloInv /\ NothingLost
        /\ OutInv(workers[SchedulerProcess]) /\ [Next /\ Count]_historyVars
        => NothingLost' /\ OutInv(workers[SchedulerProcess])'
    BY NextOut DEF IInv, NothingLost
  <1>4. Solo /\ IInv /\ RoomInv /\ OutInv(workers[SchedulerProcess])
           => DailyLimitRespected
    BY OutBounds DEF IInv
  <1>5. Solo => IsFiniteSet(Workers)
    BY FS_Singleton DEF Solo
  <1> QED BY <1>1, <1>2, <1>3, <1>4, <1>5, SoloCorrect, RoomCorrect, PTL DEF CountedSpec
===============================================================================
