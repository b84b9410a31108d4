---------------------------- MODULE SchedulerProofs ----------------------------
(***************************************************************************)
(* What holds of the attempt log for any number of posts, channels and     *)
(* workers, any policies and any interleaving, crashes and failing         *)
(* statements included, and how often a channel gets a post meanwhile.      *)
(***************************************************************************)
EXTENDS Scheduler, FiniteSetTheorems, TLAPS

\* The locals a worker has set when it is at a step that uses them.
InHand(s) ==
    /\ s.pc \notin {"idle", "due"} => s.post \in Snapshot
    /\ s.pc \in {"limit", "publish", "insert"}
          => s.channel \in ChannelIds /\ s.no \in Nat \ {0}
    /\ s.pc = "insert" => s.result \in Result
    /\ s.pc = "store" => s.verdict \in Verdict

\* Why the race for an attempt number is harmless: between reading the log and
\* writing to it a worker holds the number after a row which is still there as
\* long as its post and its channel are, which was not sent, and never changes.
AttemptInHand(s) ==
    (/\ s.pc \in {"limit", "publish", "insert"}
     /\ Exists(s.post.id)
     /\ channels[s.channel] # Null) =>
        \/ s.no = 1
        \/ \E r \in attempts : /\ r.post = s.post.id
                               /\ r.channel = s.channel
                               /\ r.no = s.no - 1
                               /\ r.status # "sent"

TypeInv == TypeOK /\ \A w \in Workers : InHand(workers[w])

\* A row belongs to a post that exists (the foreign key).
LogInv ==
    /\ AttemptNumbersGapless
    /\ SentIsLast
    /\ \A r \in attempts : Exists(r.post)
    /\ \A w \in Workers : AttemptInHand(workers[w])

IInv == TypeInv /\ LogInv

-------------------------------------------------------------------------------
(***************************************************************************)
(* Types.                                                                  *)
(***************************************************************************)
LEMMA NullIsNoMoment == Null \notin Moments
  BY NullAssumption DEF Moments

\* A retry moment is a moment or Null.
LEMMA RetryMoment ==
    ASSUME NEW t \in Moments, NEW n \in Nat, NEW category, NEW policy \in Policies
    PROVE  ScheduleRetryWithPolicy(t, n, category, policy) \in MaybeMoments
  <1>1. policy.rateLimitBackoff \in Nat
    BY DEF Policies
  <1>2. policy.backoff \in [1 .. 3 -> Nat]
    BY DEF Policies
  <1>3. CASE n = 0 \/ n > policy.maxRetries
    BY <1>3 DEF ScheduleRetryWithPolicy, MaybeMoments
  <1>4. CASE ~(n = 0 \/ n > policy.maxRetries)
    <2>1. (IF n > 3 THEN 3 ELSE n) \in 1 .. 3
      BY <1>4
    <2>2. policy.backoff[IF n > 3 THEN 3 ELSE n] \in Nat
      BY <1>2, <2>1
    <2> QED BY <1>1, <1>4, <2>2 DEF ScheduleRetryWithPolicy, MaybeMoments, Moments
  <1> QED BY <1>3, <1>4

LEMMA LegacyRetryMoment ==
    ASSUME NEW t \in Moments, NEW n \in Nat
    PROVE  ScheduleRetry(t, n) \in MaybeMoments
  <1>1. CASE n \in 1 .. 3
    <2>1. LegacyBackoff[n] \in Nat
      BY <1>1, LegacyBackoffAssumption
    <2> QED BY <1>1, <2>1 DEF ScheduleRetry, MaybeMoments, Moments
  <1>2. CASE n \notin 1 .. 3
    BY <1>2 DEF ScheduleRetry, MaybeMoments
  <1> QED BY <1>1, <1>2

LEMMA SnapshotType ==
    ASSUME StoreTypeOK, NEW p \in PostIds, Exists(p)
    PROVE  SnapshotOf(p) \in Snapshot
  <1>1. posts[p] \in PostRow
    BY DEF StoreTypeOK, Exists
  <1> QED BY <1>1 DEF SnapshotOf, Snapshot, PostRow, Wake

LEMMA IdleType == Idle \in Worker /\ InHand(Idle)
  BY DEF Idle, Worker, InHand, Steps, Moments

LEMMA DoneType ==
    ASSUME NEW s \in Worker, s.post \in Snapshot, NEW failed \in BOOLEAN
    PROVE  Done(s, failed) \in Worker /\ InHand(Done(s, failed))
  <1>1. CASE s.batch # {}
    BY <1>1 DEF Done, Idle, Worker, InHand, Steps, Moments
  <1>2. CASE s.batch = {} /\ s.deleteAfter /\ ~failed
    BY <1>2 DEF Done, Idle, Worker, InHand, Steps, Moments
  <1>3. CASE s.batch = {} /\ ~(s.deleteAfter /\ ~failed)
    BY <1>3, IdleType DEF Done
  <1> QED BY <1>1, <1>2, <1>3

LEMMA NextChannelType ==
    ASSUME NEW s \in Worker, s.post \in Snapshot, NEW failed \in BOOLEAN
    PROVE  NextChannel(s, failed) \in Worker /\ InHand(NextChannel(s, failed))
  BY DEF NextChannel, Worker, InHand, Steps, Snapshot

\* A step that changes one worker, and the tables within their types.
LEMMA OneWorkerStep ==
    ASSUME TypeInv, StoreTypeOK',
           NEW w \in Workers, NEW t \in Worker, InHand(t),
           workers' = [workers EXCEPT ![w] = t],
           published' \in [PostIds -> [Targets -> Nat]],
           sends' \in Nat, faults' \in Nat
    PROVE  TypeInv'
  BY DEF TypeInv, TypeOK, InHand

LEMMA InitType == Init => TypeInv
  <1> SUFFICES ASSUME Init PROVE TypeInv
    OBVIOUS
  <1>1. IsFiniteSet(attempts)
    BY FS_EmptySet DEF Init
  <1>2. posts \in [PostIds -> PostRow \cup {Null}]
    <2>1. PICK scheduledAt \in [PostIds -> StartTimes] :
             posts = [p \in PostIds |->
                        [status |-> "scheduled", scheduledAt |-> scheduledAt[p],
                         nextRetryAt |-> Null, failCount |-> 0,
                         approvalPending |-> FALSE, planningApproved |-> TRUE]]
      BY DEF Init
    <2>2. \A p \in PostIds : scheduledAt[p] \in MaybeMoments
      BY TimesAssumption DEF MaybeMoments, Moments
    <2>3. \A p \in PostIds : posts[p] \in PostRow
      BY <2>1, <2>2 DEF PostRow, PostStatus, MaybeMoments
    <2> QED BY <2>1, <2>3
  <1>3. StoreTypeOK
    BY <1>1, <1>2 DEF Init, StoreTypeOK, Moments
  <1>4. workers \in [Workers -> Worker] /\ \A w \in Workers : InHand(workers[w])
    BY IdleType DEF Init
  <1>5. published \in [PostIds -> [Targets -> Nat]] /\ sends \in Nat /\ faults \in Nat
    BY DEF Init
  <1> QED BY <1>3, <1>4, <1>5 DEF TypeInv, TypeOK

\* The statements keep the tables within their types.
LEMMA SetPostStateType ==
    ASSUME StoreTypeOK, NEW p \in PostIds, NEW v \in Verdict,
           SetPostState(p, v.status, v.failCount, v.nextRetryAt),
           UNCHANGED <<now, postChannels, channels, attempts>>
    PROVE  StoreTypeOK' /\ \A q \in PostIds : Exists(q)' = Exists(q)
  <1>1. CASE Exists(p)
    <2>1. posts[p] \in PostRow
      BY <1>1 DEF StoreTypeOK, Exists
    <2>2. [posts[p] EXCEPT !.status = v.status, !.failCount = v.failCount,
                           !.nextRetryAt = v.nextRetryAt] \in PostRow
      BY <2>1 DEF PostRow, Verdict
    <2> DEFINE row == [posts[p] EXCEPT !.status = v.status, !.failCount = v.failCount,
                             !.nextRetryAt = v.nextRetryAt]
    <2>3. posts' = [posts EXCEPT ![p] = row]
      BY <1>1 DEF SetPostState
    <2> HIDE DEF row
    <2> QED BY <1>1, <2>2, <2>3, NoRowAssumption DEF StoreTypeOK, Exists, row
  <1>2. CASE ~Exists(p)
    BY <1>2 DEF StoreTypeOK, Exists, SetPostState
  <1> QED BY <1>1, <1>2

LEMMA MarkSentType ==
    ASSUME StoreTypeOK, NEW p \in PostIds, MarkSent(p),
           UNCHANGED <<now, postChannels, channels, attempts>>
    PROVE  StoreTypeOK' /\ \A q \in PostIds : Exists(q)' = Exists(q)
  <1>1. CASE Exists(p)
    <2>1. posts[p] \in PostRow
      BY <1>1 DEF StoreTypeOK, Exists
    <2>2. [posts[p] EXCEPT !.status = "sent", !.nextRetryAt = Null] \in PostRow
      BY <2>1 DEF PostRow, PostStatus, MaybeMoments
    <2> DEFINE row == [posts[p] EXCEPT !.status = "sent", !.nextRetryAt = Null]
    <2>3. posts' = [posts EXCEPT ![p] = row]
      BY <1>1 DEF MarkSent
    <2> HIDE DEF row
    <2> QED BY <1>1, <2>2, <2>3, NoRowAssumption DEF StoreTypeOK, Exists, row
  <1>2. CASE ~Exists(p)
    BY <1>2 DEF StoreTypeOK, Exists, MarkSent
  <1> QED BY <1>1, <1>2

LEMMA InsertType ==
    ASSUME StoreTypeOK, NEW row \in AttemptRow, InsertPublishAttempt(row),
           UNCHANGED <<now, posts, postChannels, channels>>
    PROVE  StoreTypeOK'
  <1>1. IsFiniteSet(attempts \cup {row})
    BY FS_AddElement DEF StoreTypeOK
  <1> QED BY <1>1 DEF StoreTypeOK, InsertPublishAttempt

LEMMA DeletePostType ==
    ASSUME StoreTypeOK, NEW p \in PostIds, DeletePost(p), UNCHANGED <<now, channels>>
    PROVE  StoreTypeOK'
  <1>1. IsFiniteSet({r \in attempts : r.post # p})
    BY FS_Subset DEF StoreTypeOK
  <1> QED BY <1>1 DEF StoreTypeOK, DeletePost

LEMMA UnchangedStoreType ==
    ASSUME StoreTypeOK, UNCHANGED storeVars
    PROVE  StoreTypeOK'
  BY DEF StoreTypeOK, storeVars

LEMMA ResultType ==
    ASSUME NEW s \in Worker, s.channel \in ChannelIds, NEW o \in Outcomes
    PROVE  ResultOf(s, o) \in Result
  <1>1. Policy[s.channel] \in Policies
    BY PolicyAssumption
  <1> DEFINE category == IF o = "rate_limited" THEN o ELSE "transient"
             retryAt == ScheduleRetryWithPolicy(s.at, s.no, category, Policy[s.channel])
  <1>2. s.at \in Moments /\ s.no \in Nat
    BY DEF Worker
  <1>3. retryAt \in MaybeMoments
    BY <1>1, <1>2, RetryMoment
  <1> HIDE DEF retryAt, category
  <1>4. ResultOf(s, o) =
          CASE o = "ok" -> [status |-> "sent", retryAt |-> Null]
            [] o = "permanent" \/ (o # "ok" /\ retryAt = Null)
                 -> [status |-> "failed", retryAt |-> Null]
            [] OTHER -> [status |-> "retry", retryAt |-> retryAt]
    BY DEF ResultOf, retryAt, category
  <1>5. CASE o = "ok"
    <2>1. ResultOf(s, o) = [status |-> "sent", retryAt |-> Null]
      BY <1>4, <1>5
    <2> QED BY <2>1 DEF Result, AttemptStatus, MaybeMoments
  <1>6. CASE o # "ok" /\ (o = "permanent" \/ retryAt = Null)
    <2>1. ResultOf(s, o) = [status |-> "failed", retryAt |-> Null]
      BY <1>4, <1>6
    <2> QED BY <2>1 DEF Result, AttemptStatus, MaybeMoments
  <1>7. CASE o # "ok" /\ o # "permanent" /\ retryAt # Null
    <2>1. ResultOf(s, o) = [status |-> "retry", retryAt |-> retryAt]
      BY <1>4, <1>7
    <2> QED BY <1>3, <2>1 DEF Result, AttemptStatus
  <1> QED BY <1>5, <1>6, <1>7

LEMMA VerdictType ==
    ASSUME StoreTypeOK, NEW s \in Worker, s.post \in Snapshot, NEW v \in VerdictOf(s)
    PROVE  v \in Verdict
  <1> DEFINE latest == {r \in attempts : /\ r.post = s.post.id
                                         /\ r.channel \in s.eligible
                                         /\ IsLatest(r)}
             retrying == {r \in latest : r.status = "retry"}
             failed == {r \in latest : r.status = "failed"}
             retryAts == {r.retryAt : r \in retrying}
             times == IF retryAts = {} THEN {Null}
                      ELSE {u \in retryAts : \A y \in retryAts : u <= y}
  <1>1. Cardinality(retrying \cup failed) \in Nat
    <2>1. IsFiniteSet(retrying \cup failed)
      BY FS_Subset DEF StoreTypeOK
    <2> QED BY <2>1, FS_CardinalityType
  <1>2. times \subseteq MaybeMoments
    BY DEF StoreTypeOK, AttemptRow, MaybeMoments
  <1>3. \/ \E t \in times :
             v = [status |-> "scheduled", failCount |-> Cardinality(retrying \cup failed),
                  nextRetryAt |-> t]
        \/ v = [status |-> "failed", failCount |-> Cardinality(retrying \cup failed),
                nextRetryAt |-> Null]
        \/ v = [status |-> "sent", failCount |-> 0, nextRetryAt |-> Null]
    <2> DEFINE open == retrying # {} \/ \E c \in s.eligible : \A r \in latest : r.channel # c
    <2>1. CASE open
      BY <2>1 DEF VerdictOf
    <2>2. CASE ~open /\ failed # {}
      BY <2>2 DEF VerdictOf
    <2>3. CASE ~open /\ failed = {}
      BY <2>3 DEF VerdictOf
    <2> QED BY <2>1, <2>2, <2>3
  <1> HIDE DEF times, retrying, failed
  <1> QED BY <1>1, <1>2, <1>3 DEF Verdict, PostStatus, MaybeMoments

-------------------------------------------------------------------------------
(***************************************************************************)
(* Each action keeps the types.                                            *)
(***************************************************************************)
LEMMA RunDueType ==
    ASSUME TypeInv, NEW w \in Workers, RunDue(w) PROVE TypeInv'
  <1>1. PICK due \in SUBSET DuePosts(now) :
           workers' = [workers EXCEPT ![w] =
               [Idle EXCEPT !.pc = "due", !.batch = {SnapshotOf(p) : p \in due}]]
    BY DEF RunDue
  <1> DEFINE batch == {SnapshotOf(p) : p \in due}
             t == [Idle EXCEPT !.pc = "due", !.batch = batch]
  <1>2. batch \subseteq Snapshot
    BY SnapshotType DEF TypeInv, TypeOK, DuePosts, IsDue
  <1>3. t \in Worker /\ InHand(t)
    <2> HIDE DEF batch
    <2> QED BY <1>2 DEF Idle, Worker, InHand, Steps, Moments
  <1>4. StoreTypeOK'
    BY UnchangedStoreType DEF RunDue, TypeInv, TypeOK
  <1> HIDE DEF t
  <1> QED BY <1>1, <1>3, <1>4, OneWorkerStep DEF RunDue, TypeInv, TypeOK, t

LEMMA NextDuePostType ==
    ASSUME TypeInv, NEW w \in Workers, NextDuePost(w) PROVE TypeInv'
  <1>1. PICK s \in workers[w].batch :
           workers' = [workers EXCEPT ![w] =
               [Idle EXCEPT !.pc = "load", !.post = s,
                            !.batch = workers[w].batch \ {s}]]
    BY DEF NextDuePost
  <1> DEFINE t == [Idle EXCEPT !.pc = "load", !.post = s,
                               !.batch = workers[w].batch \ {s}]
  <1>2. workers[w].batch \subseteq Snapshot
    BY DEF TypeInv, TypeOK, Worker
  <1>3. t \in Worker /\ InHand(t)
    BY <1>2 DEF Idle, Worker, InHand, Steps, Moments
  <1>4. StoreTypeOK'
    BY UnchangedStoreType DEF NextDuePost, TypeInv, TypeOK
  <1> HIDE DEF t
  <1> QED BY <1>1, <1>3, <1>4, OneWorkerStep DEF NextDuePost, TypeInv, TypeOK, t

\* Every way to ask for a post to be sent is a SendNow.
LEMMA SendIsSendNow ==
    ASSUME NEW w \in Workers, NEW p \in PostIds, Send(w, p)
    PROVE  \E del \in BOOLEAN : SendNow(w, p, del)
  BY DEF Send, SendNowPost, SendAndDeletePost, BulkSendNowPosts, APIRetryPostAttempt

LEMMA SendNowType ==
    ASSUME TypeInv, NEW w \in Workers, NEW p \in PostIds, NEW del \in BOOLEAN,
           SendNow(w, p, del)
    PROVE  TypeInv'
  <1> DEFINE t == [Idle EXCEPT !.pc = "load", !.post = SnapshotOf(p),
                               !.force = TRUE, !.deleteAfter = del]
  <1>1. SnapshotOf(p) \in Snapshot
    BY SnapshotType DEF SendNow, TypeInv, TypeOK
  <1>2. t \in Worker /\ InHand(t)
    BY <1>1 DEF Idle, Worker, InHand, Steps, Moments
  <1>3. StoreTypeOK'
    BY UnchangedStoreType DEF SendNow, TypeInv, TypeOK
  <1>4. workers' = [workers EXCEPT ![w] = t]
    BY DEF SendNow
  <1> HIDE DEF t
  <1> QED BY <1>2, <1>3, <1>4, OneWorkerStep DEF SendNow, TypeInv, TypeOK

LEMMA LoadChannelsType ==
    ASSUME TypeInv, NEW w \in Workers, LoadChannels(w) PROVE TypeInv'
  <1> DEFINE s == workers[w]
             eligible == {c \in postChannels[s.post.id] : channels[c] # "disabled"}
  <1>1. s \in Worker /\ s.post \in Snapshot /\ now \in Moments
    BY DEF TypeInv, TypeOK, StoreTypeOK, InHand, LoadChannels
  <1>2. eligible \subseteq ChannelIds
    BY <1>1 DEF TypeInv, TypeOK, StoreTypeOK, Snapshot
  <1>3. StoreTypeOK'
    BY UnchangedStoreType DEF LoadChannels, TypeInv, TypeOK
  <1>4. PICK t : /\ workers' = [workers EXCEPT ![w] = t]
                 /\ \/ t = [s EXCEPT !.pc = "legacy", !.at = now]
                    \/ t = [s EXCEPT !.pc = "store", !.at = now, !.err = TRUE,
                                     !.verdict = [status |-> "failed",
                                                  failCount |-> s.post.failCount + 1,
                                                  nextRetryAt |-> Null]]
                    \/ t = [s EXCEPT !.pc = "channels", !.at = now,
                                     !.eligible = eligible, !.todo = eligible]
    BY DEF LoadChannels
  <1>5. [status |-> "failed", failCount |-> s.post.failCount + 1,
         nextRetryAt |-> Null] \in Verdict
    BY <1>1 DEF Verdict, Snapshot, PostStatus, MaybeMoments
  <1> HIDE DEF s, eligible
  <1>6. t \in Worker /\ InHand(t)
    <2>1. CASE t = [s EXCEPT !.pc = "legacy", !.at = now]
      BY <1>1, <2>1 DEF Worker, InHand, Steps
    <2>2. CASE t = [s EXCEPT !.pc = "store", !.at = now, !.err = TRUE,
                             !.verdict = [status |-> "failed",
                                          failCount |-> s.post.failCount + 1,
                                          nextRetryAt |-> Null]]
      BY <1>1, <1>5, <2>2 DEF Worker, InHand, Steps
    <2>3. CASE t = [s EXCEPT !.pc = "channels", !.at = now,
                             !.eligible = eligible, !.todo = eligible]
      BY <1>1, <1>2, <2>3 DEF Worker, InHand, Steps
    <2> QED BY <1>4, <2>1, <2>2, <2>3
  <1> QED BY <1>3, <1>4, <1>6, OneWorkerStep DEF LoadChannels, TypeInv, TypeOK, s

LEMMA GetLatestType ==
    ASSUME TypeInv, NEW w \in Workers, GetLatest(w) PROVE TypeInv'
  <1> DEFINE s == workers[w]
  <1>1. s \in Worker /\ s.post \in Snapshot /\ s.todo \subseteq ChannelIds
    BY DEF TypeInv, TypeOK, InHand, GetLatest, Worker
  <1>2. StoreTypeOK'
    BY UnchangedStoreType DEF GetLatest, TypeInv, TypeOK
  <1>3. PICK c \in s.todo :
           \/ workers' = [workers EXCEPT ![w] = [s EXCEPT !.todo = @ \ {c}]]
           \/ \E n \in {1} \cup {r.no + 1 : r \in AttemptsOf(s.post.id, c)} :
                 workers' = [workers EXCEPT ![w] =
                     [s EXCEPT !.pc = "limit", !.todo = @ \ {c}, !.channel = c,
                               !.no = n]]
    BY DEF GetLatest
  <1>4. \A n \in {1} \cup {r.no + 1 : r \in AttemptsOf(s.post.id, c)} : n \in Nat \ {0}
    BY DEF AttemptsOf, TypeInv, TypeOK, StoreTypeOK, AttemptRow
  <1>5. PICK n, t :
           /\ n \in Nat \ {0}
           /\ workers' = [workers EXCEPT ![w] = t]
           /\ \/ t = [s EXCEPT !.todo = @ \ {c}]
              \/ t = [s EXCEPT !.pc = "limit", !.todo = @ \ {c}, !.channel = c,
                               !.no = n]
    <2>1. CASE workers' = [workers EXCEPT ![w] = [s EXCEPT !.todo = @ \ {c}]]
      <3>1. 1 \in Nat \ {0}
        OBVIOUS
      <3> QED BY <2>1, <3>1
    <2>2. CASE \E n \in {1} \cup {r.no + 1 : r \in AttemptsOf(s.post.id, c)} :
                 workers' = [workers EXCEPT ![w] =
                     [s EXCEPT !.pc = "limit", !.todo = @ \ {c}, !.channel = c,
                               !.no = n]]
      BY <1>4, <2>2
    <2> QED BY <1>3, <2>1, <2>2
  <1>6. s.pc = "channels"
    BY DEF GetLatest
  <1> HIDE DEF s
  <1>7. t \in Worker /\ InHand(t)
    <2>1. CASE t = [s EXCEPT !.todo = @ \ {c}]
      BY <1>1, <1>6, <2>1 DEF Worker, InHand, Steps
    <2>2. CASE t = [s EXCEPT !.pc = "limit", !.todo = @ \ {c}, !.channel = c,
                             !.no = n]
      BY <1>1, <1>5, <2>2 DEF Worker, InHand, Steps
    <2> QED BY <1>5, <2>1, <2>2
  <1> QED BY <1>2, <1>5, <1>7, OneWorkerStep DEF GetLatest, TypeInv, TypeOK

LEMMA CheckDailyLimitType ==
    ASSUME TypeInv, NEW w \in Workers, CheckDailyLimit(w) PROVE TypeInv'
  <1> DEFINE s == workers[w]
  <1>1. /\ s \in Worker /\ s.post \in Snapshot
        /\ s.channel \in ChannelIds /\ s.no \in Nat \ {0}
    BY DEF TypeInv, TypeOK, InHand, CheckDailyLimit
  <1>2. StoreTypeOK'
    BY UnchangedStoreType DEF CheckDailyLimit, TypeInv, TypeOK
  <1>3. PICK t : /\ workers' = [workers EXCEPT ![w] = t]
                 /\ \/ t = [s EXCEPT !.pc = "insert",
                                     !.result = [status |-> "retry",
                                                 retryAt |-> DayEnd(s.at)]]
                    \/ t = [s EXCEPT !.pc = "publish"]
    BY DEF CheckDailyLimit
  <1>4. [status |-> "retry", retryAt |-> DayEnd(s.at)] \in Result
    <2>1. s.at \in Nat
      BY <1>1 DEF Worker, Moments
    <2>2. DayOf(s.at) \in Nat
      BY <2>1, DayLengthAssumption DEF DayOf
    <2>3. DayEnd(s.at) \in Nat
      BY <2>2, DayLengthAssumption DEF DayEnd
    <2> QED BY <2>3 DEF Result, AttemptStatus, MaybeMoments
  <1> HIDE DEF s
  <1>5. t \in Worker /\ InHand(t)
    <2>1. CASE t = [s EXCEPT !.pc = "insert",
                             !.result = [status |-> "retry",
                                         retryAt |-> DayEnd(s.at)]]
      BY <1>1, <1>4, <2>1 DEF Worker, InHand, Steps
    <2>2. CASE t = [s EXCEPT !.pc = "publish"]
      BY <1>1, <2>2 DEF Worker, InHand, Steps
    <2> QED BY <1>3, <2>1, <2>2
  <1> QED BY <1>2, <1>3, <1>5, OneWorkerStep DEF CheckDailyLimit, TypeInv, TypeOK

LEMMA DeliverType ==
    ASSUME TypeOK, NEW p \in PostIds, NEW t \in Targets, NEW o, Deliver(p, t, o)
    PROVE  published' \in [PostIds -> [Targets -> Nat]]
  <1>1. published \in [PostIds -> [Targets -> Nat]]
    BY DEF TypeOK
  <1>2. published[p][t] \in Nat
    BY <1>1
  <1>3. [published[p] EXCEPT ![t] = published[p][t] + 1] \in [Targets -> Nat]
    BY <1>1, <1>2
  <1>4. published' = published
        \/ published' = [published EXCEPT ![p] =
                            [published[p] EXCEPT ![t] = published[p][t] + 1]]
    BY DEF Deliver
  <1> QED BY <1>1, <1>3, <1>4

LEMMA PublishType ==
    ASSUME TypeInv, NEW w \in Workers, Publish(w) PROVE TypeInv'
  <1> DEFINE s == workers[w]
  <1>1. /\ s \in Worker /\ s.post \in Snapshot
        /\ s.channel \in ChannelIds /\ s.no \in Nat \ {0}
    BY DEF TypeInv, TypeOK, InHand, Publish
  <1>2. StoreTypeOK'
    BY UnchangedStoreType DEF Publish, TypeInv, TypeOK
  <1>3. PICK o \in Outcomes :
           /\ Deliver(s.post.id, s.channel, o)
           /\ workers' = [workers EXCEPT ![w] =
                 [s EXCEPT !.pc = "insert", !.result = ResultOf(s, o)]]
    BY DEF Publish
  <1>4. published' \in [PostIds -> [Targets -> Nat]]
    BY <1>1, <1>3, DeliverType DEF Snapshot, Targets, TypeInv
  <1>5. ResultOf(s, o) \in Result
    BY <1>1, ResultType
  <1> DEFINE t == [s EXCEPT !.pc = "insert", !.result = ResultOf(s, o)]
  <1>6. workers' = [workers EXCEPT ![w] = t]
    BY <1>3
  <1> HIDE DEF s
  <1>7. t \in Worker /\ InHand(t)
    BY <1>1, <1>5 DEF Worker, InHand, Steps
  <1> HIDE DEF t
  <1> QED BY <1>2, <1>4, <1>6, <1>7, OneWorkerStep DEF Publish, TypeInv, TypeOK

LEMMA InsertAttemptType ==
    ASSUME TypeInv, NEW w \in Workers, InsertAttempt(w) PROVE TypeInv'
  <1> DEFINE s == workers[w]
  <1>1. /\ s \in Worker /\ s.post \in Snapshot
        /\ s.channel \in ChannelIds /\ s.no \in Nat \ {0} /\ s.result \in Result
    BY DEF TypeInv, TypeOK, InHand, InsertAttempt
  <1>2. RowOf(s) \in AttemptRow
    BY <1>1 DEF RowOf, AttemptRow, Worker, Snapshot, Result
  <1>3. StoreTypeOK'
    BY <1>2, InsertType DEF InsertAttempt, TypeInv, TypeOK
  <1>4. PICK failed \in BOOLEAN : workers' = [workers EXCEPT ![w] = NextChannel(s, failed)]
    BY DEF InsertAttempt
  <1>5. NextChannel(s, failed) \in Worker /\ InHand(NextChannel(s, failed))
    BY <1>1, NextChannelType
  <1>6. faults' \in Nat
    <2>1. faults' = faults \/ faults' = faults + 1
      BY DEF InsertAttempt
    <2> QED BY <2>1 DEF TypeInv, TypeOK
  <1> HIDE DEF s
  <1> QED BY <1>3, <1>4, <1>5, <1>6, OneWorkerStep DEF InsertAttempt, TypeInv, TypeOK

LEMMA ReconcileType ==
    ASSUME TypeInv, NEW w \in Workers, Reconcile(w) PROVE TypeInv'
  <1> DEFINE s == workers[w]
  <1>1. s \in Worker /\ s.post \in Snapshot
    BY DEF TypeInv, TypeOK, InHand, Reconcile
  <1>2. StoreTypeOK'
    BY UnchangedStoreType DEF Reconcile, TypeInv, TypeOK
  <1>3. PICK v \in VerdictOf(s) :
           workers' = [workers EXCEPT ![w] = [s EXCEPT !.pc = "store", !.verdict = v]]
    BY DEF Reconcile
  <1>4. v \in Verdict
    BY <1>1, VerdictType DEF TypeInv, TypeOK
  <1> DEFINE t == [s EXCEPT !.pc = "store", !.verdict = v]
  <1>5. workers' = [workers EXCEPT ![w] = t]
    BY <1>3
  <1> HIDE DEF s
  <1>6. t \in Worker /\ InHand(t)
    BY <1>1, <1>4 DEF Worker, InHand, Steps
  <1> HIDE DEF t
  <1> QED BY <1>2, <1>5, <1>6, OneWorkerStep DEF Reconcile, TypeInv, TypeOK

LEMMA StorePostStateType ==
    ASSUME TypeInv, NEW w \in Workers, StorePostState(w) PROVE TypeInv'
  <1> DEFINE s == workers[w]
             failed == s.err \/ ~Exists(s.post.id)
  <1>1. s \in Worker /\ s.post \in Snapshot /\ s.verdict \in Verdict
    BY DEF TypeInv, TypeOK, InHand, StorePostState
  <1>2. s.post.id \in PostIds /\ s.err \in BOOLEAN
    BY <1>1 DEF Snapshot, Worker
  <1>3. StoreTypeOK'
    BY <1>1, <1>2, SetPostStateType DEF StorePostState, TypeInv, TypeOK
  <1>4. Done(s, failed) \in Worker /\ InHand(Done(s, failed))
    BY <1>1, <1>2, DoneType
  <1>5. workers' = [workers EXCEPT ![w] = Done(s, failed)]
    BY DEF StorePostState
  <1> HIDE DEF s, failed
  <1> QED BY <1>3, <1>4, <1>5, OneWorkerStep DEF StorePostState, TypeInv, TypeOK

LEMMA LegacyPublishType ==
    ASSUME TypeInv, NEW w \in Workers, LegacyPublish(w) PROVE TypeInv'
  <1> DEFINE s == workers[w]
             failCount == s.post.failCount + 1
  <1>1. s \in Worker /\ s.post \in Snapshot
    BY DEF TypeInv, TypeOK, InHand, LegacyPublish
  <1>2. StoreTypeOK'
    BY UnchangedStoreType DEF LegacyPublish, TypeInv, TypeOK
  <1>3. PICK o \in Outcomes :
           LET retryAt == IF o = "permanent" THEN Null
                          ELSE ScheduleRetry(s.at, failCount)
               status == IF retryAt = Null THEN "failed" ELSE "scheduled"
           IN /\ Deliver(s.post.id, Fallback, o)
              /\ workers' = [workers EXCEPT ![w] =
                    IF o = "ok" THEN [s EXCEPT !.pc = "mark"]
                    ELSE [s EXCEPT !.pc = "store", !.err = TRUE,
                                   !.verdict = [status |-> status,
                                                failCount |-> failCount,
                                                nextRetryAt |-> retryAt]]]
    BY DEF LegacyPublish
  <1>4. published' \in [PostIds -> [Targets -> Nat]]
    BY <1>1, <1>3, DeliverType DEF Snapshot, Targets, TypeInv
  <1> DEFINE retryAt == IF o = "permanent" THEN Null ELSE ScheduleRetry(s.at, failCount)
             status == IF retryAt = Null THEN "failed" ELSE "scheduled"
             v == [status |-> status, failCount |-> failCount, nextRetryAt |-> retryAt]
             t == IF o = "ok" THEN [s EXCEPT !.pc = "mark"]
                  ELSE [s EXCEPT !.pc = "store", !.err = TRUE, !.verdict = v]
  <1>5. workers' = [workers EXCEPT ![w] = t]
    BY <1>3
  <1>6. v \in Verdict
    <2>1. s.at \in Moments /\ failCount \in Nat
      BY <1>1 DEF Worker, Snapshot
    <2>2. retryAt \in MaybeMoments
      BY <2>1, LegacyRetryMoment DEF MaybeMoments
    <2> HIDE DEF retryAt, failCount
    <2> QED BY <2>1, <2>2 DEF Verdict, PostStatus
  <1> HIDE DEF s, v
  <1>7. t \in Worker /\ InHand(t)
    <2>1. CASE o = "ok"
      BY <1>1, <2>1 DEF Worker, InHand, Steps
    <2>2. CASE o # "ok"
      BY <1>1, <1>6, <2>2 DEF Worker, InHand, Steps
    <2> QED BY <2>1, <2>2
  <1> HIDE DEF t
  <1> QED BY <1>2, <1>4, <1>5, <1>7, OneWorkerStep DEF LegacyPublish, TypeInv, TypeOK

LEMMA LegacyMarkSentType ==
    ASSUME TypeInv, NEW w \in Workers, LegacyMarkSent(w) PROVE TypeInv'
  <1> DEFINE s == workers[w]
             failed == ~Exists(s.post.id)
  <1>1. s \in Worker /\ s.post \in Snapshot
    BY DEF TypeInv, TypeOK, InHand, LegacyMarkSent
  <1>2. StoreTypeOK'
    BY <1>1, MarkSentType DEF LegacyMarkSent, TypeInv, TypeOK, Snapshot
  <1>3. Done(s, failed) \in Worker /\ InHand(Done(s, failed))
    BY <1>1, DoneType
  <1>4. workers' = [workers EXCEPT ![w] = Done(s, failed)]
    BY DEF LegacyMarkSent
  <1> HIDE DEF s, failed
  <1> QED BY <1>2, <1>3, <1>4, OneWorkerStep DEF LegacyMarkSent, TypeInv, TypeOK

LEMMA DeleteAfterSendType ==
    ASSUME TypeInv, NEW w \in Workers, DeleteAfterSend(w) PROVE TypeInv'
  <1>1. workers[w].post.id \in PostIds
    BY DEF TypeInv, TypeOK, InHand, DeleteAfterSend, Snapshot
  <1>2. StoreTypeOK'
    BY <1>1, DeletePostType DEF DeleteAfterSend, TypeInv, TypeOK
  <1> QED BY <1>2, IdleType, OneWorkerStep DEF DeleteAfterSend, TypeInv, TypeOK

LEMMA FaultsType ==
    ASSUME TypeInv, NEW w \in Workers, Crash(w) \/ StatementFails(w) PROVE TypeInv'
  <1>1. StoreTypeOK'
    BY UnchangedStoreType DEF Crash, StatementFails, TypeInv, TypeOK
  <1>2. faults' \in Nat /\ published' = published /\ sends' = sends
    <2>1. /\ faults' = faults + 1 /\ published' = published /\ sends' = sends
          /\ faults \in Nat
      BY DEF Crash, StatementFails, TypeInv, TypeOK
    <2> QED BY <2>1
  <1>3. PICK t : /\ workers' = [workers EXCEPT ![w] = t]
                 /\ \/ t = Idle
                    \/ /\ workers[w].pc \notin {"idle", "due"}
                       /\ t \in {NextChannel(workers[w], TRUE), Done(workers[w], TRUE)}
    BY DEF Crash, StatementFails
  <1>4. t \in Worker /\ InHand(t)
    <2>1. CASE t = Idle
      BY <2>1, IdleType
    <2>2. CASE workers[w].pc \notin {"idle", "due"}
               /\ t \in {NextChannel(workers[w], TRUE), Done(workers[w], TRUE)}
      <3>1. workers[w] \in Worker /\ workers[w].post \in Snapshot
        BY <2>2 DEF TypeInv, TypeOK, InHand
      <3> QED BY <2>2, <3>1, NextChannelType, DoneType
    <2> QED BY <1>3, <2>1, <2>2
  <1> QED BY <1>1, <1>2, <1>3, <1>4, OneWorkerStep DEF TypeInv, TypeOK

LEMMA NextType == TypeInv /\ [Next]_vars => TypeInv'
  <1> SUFFICES ASSUME TypeInv, [Next]_vars PROVE TypeInv'
    OBVIOUS
  <1>1. CASE Tick
    BY <1>1 DEF Tick, TypeInv, TypeOK, StoreTypeOK, InHand, Moments
  <1>2. ASSUME NEW w \in Workers, Process(w) PROVE TypeInv'
    BY <1>2, NextDuePostType, LoadChannelsType, GetLatestType, CheckDailyLimitType,
       PublishType, InsertAttemptType, ReconcileType, StorePostStateType,
       LegacyPublishType, LegacyMarkSentType, DeleteAfterSendType DEF Process
  <1>3. CASE UNCHANGED vars
    BY <1>3 DEF vars, storeVars, TypeInv, TypeOK, StoreTypeOK, InHand
  <1>4. ASSUME NEW w \in Workers, NEW p \in PostIds, Send(w, p) PROVE TypeInv'
    BY <1>4, SendIsSendNow, SendNowType
  <1> QED BY <1>1, <1>2, <1>3, <1>4, RunDueType, FaultsType DEF Next

\* The tables and every worker's locals keep their types, for any number of
\* posts, channels and workers.
THEOREM TypeCorrect == Spec => []TypeOK
  <1>1. TypeInv => TypeOK
    BY DEF TypeInv
  <1> QED BY <1>1, InitType, NextType, PTL DEF Spec

-------------------------------------------------------------------------------
(***************************************************************************)
(* The attempt log.                                                        *)
(***************************************************************************)
\* A step that leaves the log and the set of posts alone.
LEMMA LogUntouched ==
    ASSUME TypeInv, LogInv, attempts' = attempts, channels' = channels,
           \A p \in PostIds : Exists(p)' = Exists(p),
           NEW w \in Workers, NEW t \in Worker, InHand(t), AttemptInHand(t),
           workers' = [workers EXCEPT ![w] = t]
    PROVE  LogInv'
  <1>1. AttemptNumbersGapless' /\ SentIsLast'
    BY DEF LogInv, AttemptNumbersGapless, SentIsLast, SameTarget
  <1>2. \A r \in attempts' : Exists(r.post)'
    BY DEF LogInv, TypeInv, TypeOK, StoreTypeOK, AttemptRow
  <1>3. ASSUME NEW v \in Workers PROVE AttemptInHand(workers[v])'
    <2>1. workers'[v] \in {workers[v], t}
      BY DEF TypeInv, TypeOK
    <2>2. AttemptInHand(workers'[v]) /\ InHand(workers'[v])
      BY <2>1 DEF LogInv, TypeInv
    <2>3. CASE workers'[v].pc \notin {"limit", "publish", "insert"}
      BY <2>3 DEF AttemptInHand
    <2>4. CASE workers'[v].pc \in {"limit", "publish", "insert"}
      <3>1. workers'[v].post.id \in PostIds
        BY <2>2, <2>4 DEF InHand, Snapshot
      <3> QED BY <2>2, <3>1 DEF AttemptInHand
    <2> QED BY <2>3, <2>4
  <1> QED BY <1>1, <1>2, <1>3 DEF LogInv

\* GetLatestPublishAttempt gives the worker the number after the last row, and
\* shouldAttemptChannel sends it on only if that row was not sent.
LEMMA GetLatestLog ==
    ASSUME TypeInv, LogInv, NEW w \in Workers, GetLatest(w) PROVE LogInv'
  <1> DEFINE s == workers[w]
  <1>1. /\ s \in Worker /\ s.post \in Snapshot /\ s.todo \subseteq ChannelIds
        /\ s.pc = "channels"
    BY DEF TypeInv, TypeOK, InHand, GetLatest, Worker
  <1>2. attempts' = attempts /\ posts' = posts /\ channels' = channels
    BY DEF GetLatest, storeVars
  <1>3. PICK c \in s.todo :
           \/ workers' = [workers EXCEPT ![w] = [s EXCEPT !.todo = @ \ {c}]]
           \/ /\ ShouldAttempt(s, c)
              /\ \E n \in {1} \cup {r.no + 1 : r \in AttemptsOf(s.post.id, c)} :
                    /\ \A r \in AttemptsOf(s.post.id, c) : r.no < n
                    /\ workers' = [workers EXCEPT ![w] =
                          [s EXCEPT !.pc = "limit", !.todo = @ \ {c},
                                    !.channel = c, !.no = n]]
    BY DEF GetLatest
  <1>4. CASE workers' = [workers EXCEPT ![w] = [s EXCEPT !.todo = @ \ {c}]]
    <2> DEFINE t == [s EXCEPT !.todo = @ \ {c}]
    <2>1. t \in Worker /\ InHand(t)
      <3> HIDE DEF s
      <3> QED BY <1>1 DEF Worker, InHand, Steps
    <2>2. AttemptInHand(t)
      BY <1>1 DEF AttemptInHand, Worker
    <2> HIDE DEF t
    <2>3. \A p \in PostIds : Exists(p)' = Exists(p)
      BY <1>2 DEF Exists
    <2> QED BY <1>2, <2>1, <2>2, <2>3, <1>4, LogUntouched DEF t
  <1>5. CASE /\ ShouldAttempt(s, c)
             /\ \E n \in {1} \cup {r.no + 1 : r \in AttemptsOf(s.post.id, c)} :
                   /\ \A r \in AttemptsOf(s.post.id, c) : r.no < n
                   /\ workers' = [workers EXCEPT ![w] =
                         [s EXCEPT !.pc = "limit", !.todo = @ \ {c},
                                   !.channel = c, !.no = n]]
    <2>1. PICK n \in {1} \cup {r.no + 1 : r \in AttemptsOf(s.post.id, c)} :
             /\ \A r \in AttemptsOf(s.post.id, c) : r.no < n
             /\ workers' = [workers EXCEPT ![w] =
                   [s EXCEPT !.pc = "limit", !.todo = @ \ {c}, !.channel = c,
                             !.no = n]]
      BY <1>5
    <2> DEFINE t == [s EXCEPT !.pc = "limit", !.todo = @ \ {c}, !.channel = c, !.no = n]
    <2>2. n \in Nat \ {0}
      BY DEF AttemptsOf, TypeInv, TypeOK, StoreTypeOK, AttemptRow
    <2>3. t \in Worker /\ InHand(t)
      <3> HIDE DEF s
      <3> QED BY <1>1, <2>2 DEF Worker, InHand, Steps
    <2>4. n = 1 \/ \E r \in attempts : /\ r.post = s.post.id
                                        /\ r.channel = c
                                        /\ r.no = n - 1
                                        /\ r.status # "sent"
      <3>1. CASE n = 1
        BY <3>1
      <3>2. CASE n # 1
        <4>1. PICK r \in AttemptsOf(s.post.id, c) : n = r.no + 1
          BY <3>2
        <4>2. \A q \in AttemptsOf(s.post.id, c) : q.no \in Nat
          BY DEF AttemptsOf, TypeInv, TypeOK, StoreTypeOK, AttemptRow
        <4>3. \A q \in AttemptsOf(s.post.id, c) : q.no <= r.no
          BY <2>1, <4>1, <4>2
        <4>4. IsLatest(r)
          BY <4>1, <4>3 DEF IsLatest, SameTarget, AttemptsOf
        <4>5. r.status # "sent"
          BY <1>5, <4>1, <4>4 DEF ShouldAttempt
        <4>6. r.no = n - 1
          BY <4>1, <4>2
        <4> QED BY <4>1, <4>5, <4>6 DEF AttemptsOf
      <3> QED BY <3>1, <3>2
    <2>5. /\ t.pc = "limit" /\ t.post = s.post /\ t.channel = c /\ t.no = n
      BY <1>1 DEF Worker
    <2> HIDE DEF t
    <2>6. AttemptInHand(t)
      BY <2>4, <2>5 DEF AttemptInHand
    <2>7. \A p \in PostIds : Exists(p)' = Exists(p)
      BY <1>2 DEF Exists
    <2> QED BY <1>2, <2>1, <2>3, <2>6, <2>7, LogUntouched DEF t
  <1> QED BY <1>3, <1>4, <1>5

\* InsertPublishAttempt: the number is free, so the log ends where the worker
\* saw it end, and that last row was not sent.
LEMMA InsertFollowsLog ==
    ASSUME TypeInv, LogInv, NEW w \in Workers, InsertAttempt(w),
           CanInsertAttempt(RowOf(workers[w]))
    PROVE  LET row == RowOf(workers[w])
           IN /\ row.no \in Nat \ {0}
              /\ \/ row.no = 1
                 \/ \E r \in attempts : SameTarget(r, row) /\ r.no = row.no - 1
              /\ \A r \in attempts : SameTarget(r, row) => r.no < row.no /\ r.status # "sent"
  <1> DEFINE s == workers[w]
             row == RowOf(s)
  <1>1. /\ s \in Worker /\ s.pc = "insert" /\ s.no \in Nat \ {0}
    BY DEF TypeInv, TypeOK, InHand, InsertAttempt
  <1>2. /\ row.post = s.post.id /\ row.channel = s.channel
        /\ row.no = s.no /\ row.no \in Nat \ {0}
    BY <1>1 DEF RowOf
  <1>3. /\ Exists(row.post) /\ channels[row.channel] # Null
        /\ \A r \in attempts : SameTarget(r, row) => r.no # row.no
    BY DEF CanInsertAttempt
  <1>4. \/ row.no = 1
        \/ \E r \in attempts : SameTarget(r, row) /\ r.no = row.no - 1 /\ r.status # "sent"
    BY <1>1, <1>2, <1>3 DEF LogInv, AttemptInHand, SameTarget
  <1> HIDE DEF row
  <1>5. \A r \in attempts : r.no \in Nat \ {0}
    BY DEF TypeInv, TypeOK, StoreTypeOK, AttemptRow
  <1>6. ASSUME NEW r \in attempts, SameTarget(r, row)
        PROVE  r.no < row.no /\ r.status # "sent"
    <2>1. r.no < row.no
      <3> SUFFICES ASSUME row.no < r.no PROVE FALSE
        BY <1>2, <1>3, <1>5, <1>6
      <3>1. row.no \in 1 .. r.no
        BY <1>2, <1>5
      <3>2. PICK q \in attempts : SameTarget(r, q) /\ q.no = row.no
        BY <3>1 DEF LogInv, AttemptNumbersGapless
      <3> QED BY <1>3, <1>6, <3>2 DEF SameTarget
    <2>2. PICK q \in attempts : /\ SameTarget(q, row) /\ q.no = row.no - 1
                                /\ q.status # "sent"
      BY <1>2, <1>4, <1>5, <2>1
    <2>3. SameTarget(r, q) /\ r.no <= q.no
      BY <1>2, <1>5, <1>6, <2>1, <2>2 DEF SameTarget
    <2>4. CASE r.status = "sent"
      <3>1. q.no <= r.no
        BY <2>3, <2>4 DEF LogInv, SentIsLast
      <3>2. q.no = r.no
        BY <1>5, <2>3, <3>1
      <3>3. r = q
        BY <2>3, <3>2 DEF LogInv, AttemptNumbersGapless
      <3> QED BY <2>2, <2>4, <3>3
    <2> QED BY <2>1, <2>4
  <1> QED BY <1>2, <1>4, <1>6 DEF row

\* The log with the row at its end.
LEMMA InsertAttemptLog ==
    ASSUME TypeInv, LogInv, NEW w \in Workers, InsertAttempt(w) PROVE LogInv'
  <1> DEFINE s == workers[w]
             row == RowOf(s)
  <1> PICK failed \in BOOLEAN : workers' = [workers EXCEPT ![w] = NextChannel(s, failed)]
    BY DEF InsertAttempt
  <1> DEFINE t == NextChannel(s, failed)
  <1>1. /\ s \in Worker /\ s.post \in Snapshot /\ s.pc = "insert"
        /\ s.channel \in ChannelIds /\ s.no \in Nat \ {0}
        /\ s.result \in Result
    BY DEF TypeInv, TypeOK, InHand, InsertAttempt
  <1>2. t \in Worker /\ InHand(t) /\ t.pc = "channels"
    <2>1. t.pc = "channels"
      BY <1>1 DEF NextChannel, Worker
    <2> QED BY <1>1, <2>1, NextChannelType
  <1>3. workers' = [workers EXCEPT ![w] = t] /\ posts' = posts /\ channels' = channels
    BY DEF InsertAttempt
  <1>4. \A p \in PostIds : Exists(p)' = Exists(p)
    BY <1>3 DEF Exists
  <1>5. CASE ~CanInsertAttempt(row)
    <2>1. attempts' = attempts
      BY <1>5 DEF InsertAttempt, InsertPublishAttempt
    <2>2. AttemptInHand(t)
      BY <1>2 DEF AttemptInHand
    <2> HIDE DEF t
    <2> QED BY <1>2, <1>3, <1>4, <2>1, <2>2, LogUntouched
  <1>6. CASE CanInsertAttempt(row)
    <2>1. attempts' = attempts \cup {row}
      BY <1>6 DEF InsertAttempt, InsertPublishAttempt
    <2>2. /\ row.post = s.post.id /\ row.channel = s.channel
          /\ row.no = s.no /\ row.no \in Nat \ {0}
      BY <1>1 DEF RowOf
    <2>3. Exists(row.post) /\ \A r \in attempts : SameTarget(r, row) => r.no # row.no
      BY <1>6 DEF CanInsertAttempt
    <2>4. /\ \/ row.no = 1
             \/ \E r \in attempts : SameTarget(r, row) /\ r.no = row.no - 1
          /\ \A r \in attempts : SameTarget(r, row) => r.no < row.no /\ r.status # "sent"
      BY <1>6, InsertFollowsLog
    <2> HIDE DEF row
    <2>5. \A r \in attempts : r.no \in Nat \ {0}
      BY DEF TypeInv, TypeOK, StoreTypeOK, AttemptRow
    <2>6. \A r \in attempts : SameTarget(r, row) => r.no < row.no /\ r.status # "sent"
      BY <2>4
    <2>7. AttemptNumbersGapless'
      <3>1. ASSUME NEW r \in attempts', NEW q \in attempts', SameTarget(r, q), r.no = q.no
            PROVE  r = q
        BY <2>1, <2>3, <3>1 DEF LogInv, AttemptNumbersGapless, SameTarget
      <3>2. ASSUME NEW r \in attempts', NEW m \in 1 .. r.no
            PROVE  \E q \in attempts' : SameTarget(r, q) /\ q.no = m
        <4>1. CASE r \in attempts
          BY <2>1, <4>1 DEF LogInv, AttemptNumbersGapless
        <4>2. CASE r = row /\ m = row.no
          BY <2>1, <4>2 DEF SameTarget
        <4>3. CASE r = row /\ m # row.no
          <5>1. PICK q \in attempts : SameTarget(q, row) /\ q.no = row.no - 1
            BY <2>2, <2>4, <4>3
          <5>2. m \in 1 .. q.no
            BY <2>2, <4>3, <5>1
          <5>3. PICK u \in attempts : SameTarget(q, u) /\ u.no = m
            BY <5>2 DEF LogInv, AttemptNumbersGapless
          <5> QED BY <2>1, <4>3, <5>1, <5>3 DEF SameTarget
        <4> QED BY <2>1, <4>1, <4>2, <4>3
      <3> QED BY <3>1, <3>2 DEF AttemptNumbersGapless, SameTarget
    <2>8. SentIsLast'
      <3> SUFFICES ASSUME NEW r \in attempts', NEW q \in attempts',
                          SameTarget(r, q), r.status = "sent"
                   PROVE  q.no <= r.no
        BY DEF SentIsLast, SameTarget
      <3>1. CASE r \in attempts /\ q \in attempts
        BY <3>1 DEF LogInv, SentIsLast
      <3>2. CASE r = row
        BY <2>1, <2>2, <2>5, <2>6, <3>2 DEF SameTarget
      <3>3. CASE r \in attempts /\ q = row
        BY <2>6, <3>3
      <3> QED BY <2>1, <3>1, <3>2, <3>3
    <2>9. \A r \in attempts' : Exists(r.post)'
      BY <1>3, <2>1, <2>3 DEF LogInv, Exists
    <2>10. ASSUME NEW v \in Workers PROVE AttemptInHand(workers[v])'
      <3>1. CASE v = w
        BY <1>2, <1>3, <3>1 DEF AttemptInHand, TypeInv, TypeOK
      <3>2. CASE v # w
        <4>1. workers'[v] = workers[v]
          BY <1>3, <3>2 DEF TypeInv, TypeOK
        <4> QED BY <1>3, <2>1, <4>1 DEF AttemptInHand, Exists, LogInv
      <3> QED BY <3>1, <3>2
    <2> QED BY <2>7, <2>8, <2>9, <2>10 DEF LogInv
  <1> QED BY <1>5, <1>6

\* Deleting a post takes whole logs with it.
LEMMA DeleteAfterSendLog ==
    ASSUME TypeInv, LogInv, NEW w \in Workers, DeleteAfterSend(w) PROVE LogInv'
  <1> DEFINE p == workers[w].post.id
  <1>1. /\ attempts' = {r \in attempts : r.post # p}
        /\ posts' = [posts EXCEPT ![p] = Null]
        /\ workers' = [workers EXCEPT ![w] = Idle]
        /\ channels' = channels
    BY DEF DeleteAfterSend, DeletePost
  <1>2. p \in PostIds
    BY DEF TypeInv, TypeOK, InHand, DeleteAfterSend, Snapshot
  <1> HIDE DEF p
  <1>3. ASSUME NEW q, q # p PROVE posts'[q] = posts[q]
    BY <1>1, <1>3
  <1>4. AttemptNumbersGapless' /\ SentIsLast'
    BY <1>1 DEF LogInv, AttemptNumbersGapless, SentIsLast, SameTarget
  <1>5. ASSUME NEW r \in attempts' PROVE Exists(r.post)'
    BY <1>1, <1>3 DEF LogInv, Exists
  <1>6. ASSUME NEW v \in Workers PROVE AttemptInHand(workers[v])'
    <2>1. CASE v = w
      BY <1>1, <2>1 DEF AttemptInHand, Idle, TypeInv, TypeOK
    <2>2. CASE v # w
      <3>1. workers'[v] = workers[v]
        BY <1>1, <2>2 DEF TypeInv, TypeOK
      <3> SUFFICES ASSUME workers[v].pc \in {"limit", "publish", "insert"},
                          Exists(workers[v].post.id)',
                          channels[workers[v].channel] # Null
                   PROVE  \/ workers[v].no = 1
                          \/ \E r \in attempts' : /\ r.post = workers[v].post.id
                                                  /\ r.channel = workers[v].channel
                                                  /\ r.no = workers[v].no - 1
                                                  /\ r.status # "sent"
        BY <1>1, <3>1 DEF AttemptInHand, Exists
      <3>2. workers[v].post.id # p
        BY <1>1, <1>2, <3>1 DEF Exists, TypeInv, TypeOK, StoreTypeOK
      <3>3. Exists(workers[v].post.id)
        BY <1>3, <3>1, <3>2 DEF Exists
      <3> QED BY <1>1, <3>2, <3>3 DEF LogInv, AttemptInHand
    <2> QED BY <2>1, <2>2
  <1> QED BY <1>4, <1>5, <1>6 DEF LogInv

LEMMA DoneStep ==
    ASSUME NEW s \in Worker, NEW failed
    PROVE  Done(s, failed).pc \in {"idle", "due", "delete"}
  <1>1. CASE s.batch # {}
    BY <1>1 DEF Done, Idle
  <1>2. CASE s.batch = {} /\ s.deleteAfter /\ ~failed
    BY <1>2 DEF Done, Idle
  <1>3. CASE s.batch = {} /\ ~(s.deleteAfter /\ ~failed)
    BY <1>3 DEF Done, Idle
  <1> QED BY <1>1, <1>2, <1>3

\* The steps between the read and the write keep what the worker holds; every
\* other step leaves the worker outside that window.
LEMMA OtherStepsLog ==
    ASSUME TypeInv, TypeInv', LogInv, NEW w \in Workers,
           \/ RunDue(w) \/ NextDuePost(w) \/ LoadChannels(w) \/ CheckDailyLimit(w)
           \/ Publish(w) \/ Reconcile(w) \/ StorePostState(w) \/ LegacyPublish(w)
           \/ LegacyMarkSent(w) \/ Crash(w) \/ StatementFails(w)
           \/ \E p \in PostIds, del \in BOOLEAN : SendNow(w, p, del)
    PROVE  LogInv'
  <1> DEFINE t == workers'[w]
             s == workers[w]
  <1>1. t \in Worker /\ InHand(t)
    BY DEF TypeInv, TypeOK, InHand
  <1>2. workers' = [workers EXCEPT ![w] = t]
    BY DEF TypeInv, TypeOK, RunDue, NextDuePost, LoadChannels, CheckDailyLimit,
       Publish, Reconcile, StorePostState, LegacyPublish, LegacyMarkSent, Crash,
       StatementFails, SendNow
  <1>3. attempts' = attempts /\ channels' = channels
    BY DEF storeVars, RunDue, NextDuePost, LoadChannels, CheckDailyLimit, Publish,
       Reconcile, StorePostState, LegacyPublish, LegacyMarkSent, Crash,
       StatementFails, SendNow
  <1>4. ASSUME NEW p \in PostIds PROVE Exists(p)' = Exists(p)
    <2>1. CASE StorePostState(w) \/ LegacyMarkSent(w)
      <3>1. workers[w].post.id \in PostIds /\ (StorePostState(w) => workers[w].verdict \in Verdict)
        BY <2>1 DEF StorePostState, LegacyMarkSent, TypeInv, TypeOK, InHand, Snapshot
      <3>2. CASE StorePostState(w)
        BY <3>1, <3>2, SetPostStateType DEF StorePostState, TypeInv, TypeOK
      <3>3. CASE LegacyMarkSent(w)
        BY <3>1, <3>3, MarkSentType DEF LegacyMarkSent, TypeInv, TypeOK
      <3> QED BY <2>1, <3>2, <3>3
    <2>2. CASE ~(StorePostState(w) \/ LegacyMarkSent(w))
      BY <2>2 DEF storeVars, Exists, RunDue, NextDuePost, LoadChannels,
         CheckDailyLimit, Publish, Reconcile, LegacyPublish, Crash,
         StatementFails, SendNow
    <2> QED BY <2>1, <2>2
  <1>5. AttemptInHand(t)
    <2>1. s \in Worker
      BY DEF TypeInv, TypeOK
    <2>2. CASE CheckDailyLimit(w) \/ Publish(w)
      <3>1. workers[w].pc \in {"limit", "publish"}
        BY <2>2 DEF CheckDailyLimit, Publish
      <3>2. /\ t.post = workers[w].post /\ t.channel = workers[w].channel
            /\ t.no = workers[w].no
        <4>1. CASE CheckDailyLimit(w)
          BY <2>1, <4>1 DEF CheckDailyLimit, TypeInv, TypeOK, Worker
        <4>2. CASE Publish(w)
          <5>1. PICK result : t = [s EXCEPT !.pc = "insert", !.result = result]
            BY <4>2 DEF Publish, TypeInv, TypeOK
          <5> HIDE DEF t, s
          <5>2. t.post = s.post /\ t.channel = s.channel /\ t.no = s.no
            BY <2>1, <5>1 DEF Worker
          <5> QED BY <5>2 DEF s
        <4> QED BY <2>2, <4>1, <4>2
      <3> HIDE DEF t
      <3> QED BY <3>1, <3>2 DEF LogInv, AttemptInHand
    <2>3. CASE ~(CheckDailyLimit(w) \/ Publish(w))
      <3>1. t.pc \notin {"limit", "publish", "insert"}
        <4>1. CASE RunDue(w)
          <5>1. PICK batch : t = [Idle EXCEPT !.pc = "due", !.batch = batch]
            BY <4>1 DEF RunDue, TypeInv, TypeOK
          <5> HIDE DEF t
          <5> QED BY <5>1 DEF Idle
        <4>2. CASE NextDuePost(w)
          <5>1. PICK post \in s.batch :
                   t = [Idle EXCEPT !.pc = "load", !.post = post,
                                    !.batch = s.batch \ {post}]
            BY <4>2 DEF NextDuePost, TypeInv, TypeOK
          <5> HIDE DEF t
          <5> QED BY <5>1 DEF Idle
        <4>3. CASE \E p \in PostIds, del \in BOOLEAN : SendNow(w, p, del)
          <5>1. PICK post, del :
                   t = [Idle EXCEPT !.pc = "load", !.post = post, !.force = TRUE,
                                    !.deleteAfter = del]
            BY <4>3 DEF SendNow, TypeInv, TypeOK
          <5> HIDE DEF t
          <5> QED BY <5>1 DEF Idle
        <4>4. CASE Crash(w)
          <5>1. t = Idle
            BY <4>4 DEF Crash, TypeInv, TypeOK
          <5> HIDE DEF t
          <5> QED BY <5>1 DEF Idle
        <4>5. CASE LoadChannels(w)
          <5>1. PICK eligible, v :
                   \/ t = [s EXCEPT !.pc = "legacy", !.at = now]
                   \/ t = [s EXCEPT !.pc = "store", !.at = now, !.err = TRUE,
                                    !.verdict = v]
                   \/ t = [s EXCEPT !.pc = "channels", !.at = now,
                                    !.eligible = eligible, !.todo = eligible]
            BY <4>5 DEF LoadChannels, TypeInv, TypeOK
          <5> HIDE DEF t, s
          <5> QED BY <2>1, <5>1 DEF Worker
        <4>6. CASE Reconcile(w)
          <5>1. PICK v : t = [s EXCEPT !.pc = "store", !.verdict = v]
            BY <4>6 DEF Reconcile, TypeInv, TypeOK
          <5> HIDE DEF t, s
          <5> QED BY <2>1, <5>1 DEF Worker
        <4>7. CASE StorePostState(w) \/ LegacyMarkSent(w)
          <5>1. PICK failed : t = Done(s, failed)
            BY <4>7 DEF StorePostState, LegacyMarkSent, TypeInv, TypeOK
          <5> HIDE DEF t, s
          <5> QED BY <2>1, <5>1, DoneStep
        <4>8. CASE LegacyPublish(w)
          <5>1. PICK v : \/ t = [s EXCEPT !.pc = "mark"]
                         \/ t = [s EXCEPT !.pc = "store", !.err = TRUE, !.verdict = v]
            BY <4>8 DEF LegacyPublish, TypeInv, TypeOK
          <5> HIDE DEF t, s
          <5> QED BY <2>1, <5>1 DEF Worker
        <4>9. CASE StatementFails(w)
          <5>1. t \in {NextChannel(s, TRUE), Done(s, TRUE)}
            BY <4>9 DEF StatementFails, TypeInv, TypeOK
          <5>2. NextChannel(s, TRUE).pc = "channels"
            <6> HIDE DEF s
            <6> QED BY <2>1 DEF NextChannel, Worker
          <5> HIDE DEF t, s
          <5> QED BY <2>1, <5>1, <5>2, DoneStep
        <4> QED BY <2>3, <4>1, <4>2, <4>3, <4>4, <4>5, <4>6, <4>7, <4>8, <4>9
      <3> HIDE DEF t
      <3> QED BY <3>1 DEF AttemptInHand
    <2> QED BY <2>2, <2>3
  <1> HIDE DEF t
  <1> QED BY <1>1, <1>2, <1>3, <1>4, <1>5, LogUntouched

LEMMA InitLog == Init => LogInv
  BY DEF Init, LogInv, AttemptNumbersGapless, SentIsLast, AttemptInHand, Idle

LEMMA NextLog == TypeInv /\ TypeInv' /\ LogInv /\ [Next]_vars => LogInv'
  <1> SUFFICES ASSUME TypeInv, TypeInv', LogInv, [Next]_vars PROVE LogInv'
    OBVIOUS
  <1>1. ASSUME attempts' = attempts, posts' = posts, channels' = channels,
               workers' = workers
        PROVE  LogInv'
    BY <1>1 DEF LogInv, AttemptNumbersGapless, SentIsLast, SameTarget, AttemptInHand, Exists
  <1>2. CASE Tick
    BY <1>1, <1>2 DEF Tick
  <1>3. CASE UNCHANGED vars
    BY <1>1, <1>3 DEF vars, storeVars
  <1>4. ASSUME NEW w \in Workers, Process(w) PROVE LogInv'
    BY <1>4, GetLatestLog, InsertAttemptLog, DeleteAfterSendLog, OtherStepsLog DEF Process
  <1>5. ASSUME NEW w \in Workers, NEW p \in PostIds, Send(w, p) PROVE LogInv'
    BY <1>5, SendIsSendNow, OtherStepsLog
  <1> QED BY <1>2, <1>3, <1>4, <1>5, OtherStepsLog DEF Next

\* The strengthened invariant of the log.
THEOREM LogCorrect == Spec => []IInv
  <1>1. Init => IInv
    BY InitType, InitLog DEF IInv
  <1>2. IInv /\ [Next]_vars => IInv'
    BY NextType, NextLog DEF IInv
  <1> QED BY <1>1, <1>2, PTL DEF Spec

\* However many workers race, every log is numbered without gaps or repeats.
THEOREM NumbersCorrect == Spec => []AttemptNumbersGapless
  <1>1. IInv => AttemptNumbersGapless
    BY DEF IInv, LogInv
  <1> QED BY <1>1, LogCorrect, PTL

\* No attempt is ever recorded after the one that was sent.
THEOREM SentIsLastCorrect == Spec => []SentIsLast
  <1>1. IInv => SentIsLast
    BY DEF IInv, LogInv
  <1> QED BY <1>1, LogCorrect, PTL

-------------------------------------------------------------------------------
(***************************************************************************)
(* How often a channel gets a post while workers race.                     *)
(***************************************************************************)
\* No publisher reports an error for a post it has published.
NothingLost == "lost" \notin Outcomes

HasSentRow(p, c) == \E r \in AttemptsOf(p, c) : r.status = "sent"

Attempting == {"limit", "publish", "insert"}

\* A request at s may yet publish p on c, or is about to store that it has not:
\* a request publishes on a channel at most once.
MayPublish(s, p, c) ==
    /\ s.pc \in {"load", "channels"} \cup Attempting
    /\ s.post.id = p
    /\ \/ s.pc = "load"
       \/ s.pc # "load" /\ c \in s.todo
       \/ s.pc \in {"limit", "publish"} /\ s.channel = c
       \/ s.pc = "insert" /\ s.channel = c /\ s.result.status # "sent"

Requests(p, c) ==
    {w \in Workers \ {SchedulerProcess} : MayPublish(workers[w], p, c)}

\* The number that a worker at s holds was taken by an attempt that failed, so
\* that its own row is going to be refused and nothing will say "sent".
Taken(s, p, c) == \E r \in AttemptsOf(p, c) : r.no = s.no /\ r.status # "sent"

\* The publishes that the scheduler process may yet make without another fault.
Claim(s, p, c) ==
    IF s.pc \in {"limit", "publish"} /\ s.post.id = p /\ s.channel = c
    THEN IF Taken(s, p, c) THEN 2 ELSE 1
    ELSE IF /\ s.pc = "insert" /\ s.post.id = p /\ s.channel = c
            /\ s.result.status = "sent"
    THEN IF Taken(s, p, c) THEN 1 ELSE 0
    ELSE IF HasSentRow(p, c) THEN 0 ELSE 1

\* What has been published and may still be, within what has been asked for and
\* what has failed.
Bound(p, c) ==
    published[p][c] + Claim(workers[SchedulerProcess], p, c) + Cardinality(Requests(p, c))
        <= 1 + faults + sends

\* Requests have no batch; a channel is taken off the list before its attempt.
Shape(w) ==
    /\ w # SchedulerProcess => workers[w].batch = {} /\ workers[w].pc # "due"
    /\ workers[w].pc \in Attempting => workers[w].channel \notin workers[w].todo

SharedInv ==
    /\ \A w \in Workers : Shape(w)
    /\ \A p \in PostIds, c \in ChannelIds :
          /\ IsFiniteSet(Requests(p, c))
          /\ Exists(p) /\ channels[c] # Null => Bound(p, c)

\* How a step moves its worker from s to t, requests to send aside.
Turn(s, t) ==
    \/ t.pc \notin {"load", "channels"} \cup Attempting
    \/ s.pc = "due" /\ t.pc = "load"
    \/ /\ t.post = s.post
       /\ \/ s.pc = "load" /\ t.pc = "channels"
          \/ /\ s.pc = "channels" /\ t.pc = "channels"
             /\ t.todo \subseteq s.todo
          \/ /\ s.pc = "channels" /\ t.pc = "limit"
             /\ t.channel \in s.todo /\ t.todo = s.todo \ {t.channel}
             /\ ~HasSentRow(s.post.id, t.channel) /\ ~Taken(t, s.post.id, t.channel)
          \/ /\ s.pc \in {"limit", "publish"}
             /\ t.pc = "publish" \/ (t.pc = "insert" /\ (s.pc = "limit" => t.result.status # "sent"))
             /\ t.channel = s.channel /\ t.no = s.no /\ t.todo = s.todo
          \/ /\ s.pc \in {"limit", "insert"} /\ t.pc = "channels"
             /\ t.todo = s.todo

\* What is left of a batch, and that only the loop over one returns to it.
BatchTurn(s, t) == s.batch = {} => t.batch = {} /\ t.pc # "due"

LEMMA DoneTurn ==
    ASSUME NEW s \in Worker, NEW failed, NEW t, t = Done(s, failed)
    PROVE  Turn(s, t) /\ BatchTurn(s, t)
  <1>1. CASE s.batch # {}
    <2>1. t = [Idle EXCEPT !.pc = "due", !.batch = s.batch]
      BY <1>1 DEF Done
    <2>2. t.pc = "due"
      BY <2>1 DEF Idle
    <2> QED BY <1>1, <2>2 DEF Turn, BatchTurn, Attempting
  <1>2. CASE s.batch = {} /\ s.deleteAfter /\ ~failed
    <2>1. t = [Idle EXCEPT !.pc = "delete", !.post = s.post, !.force = TRUE,
                           !.deleteAfter = TRUE, !.eligible = s.eligible]
      BY <1>2 DEF Done
    <2>2. t.pc = "delete" /\ t.batch = {}
      BY <2>1 DEF Idle
    <2> QED BY <2>2 DEF Turn, BatchTurn, Attempting
  <1>3. CASE s.batch = {} /\ ~(s.deleteAfter /\ ~failed)
    <2>1. t = Idle
      BY <1>3 DEF Done
    <2>2. t.pc = "idle" /\ t.batch = {}
      BY <2>1 DEF Idle
    <2> QED BY <2>2 DEF Turn, BatchTurn, Attempting
  <1> QED BY <1>1, <1>2, <1>3

LEMMA NextChannelTurn ==
    ASSUME NEW s \in Worker, NEW failed, NEW t, t = NextChannel(s, failed),
           s.pc \in {"limit", "insert"}
    PROVE  Turn(s, t) /\ BatchTurn(s, t)
  <1>1. t.pc = "channels" /\ t.post = s.post /\ t.todo = s.todo /\ t.batch = s.batch
    BY DEF NextChannel, Worker
  <1> QED BY <1>1 DEF Turn, BatchTurn

\* Only a latest attempt that was not sent is followed by another.
LEMMA GetLatestTurn ==
    ASSUME TypeInv, LogInv, NEW w \in Workers, NEW s, NEW t, GetLatest(w),
           s = workers[w], t = workers'[w]
    PROVE  Turn(s, t) /\ BatchTurn(s, t)
  <1>1. s \in Worker /\ s.pc = "channels" /\ s.post.id \in PostIds
    BY DEF GetLatest, TypeInv, TypeOK, InHand, Snapshot
  <1>2. PICK c \in s.todo :
           \/ workers' = [workers EXCEPT ![w] = [s EXCEPT !.todo = @ \ {c}]]
           \/ /\ ShouldAttempt(s, c)
              /\ \E n \in {1} \cup {r.no + 1 : r \in AttemptsOf(s.post.id, c)} :
                    /\ \A r \in AttemptsOf(s.post.id, c) : r.no < n
                    /\ workers' = [workers EXCEPT ![w] =
                          [s EXCEPT !.pc = "limit", !.todo = @ \ {c},
                                    !.channel = c, !.no = n]]
    BY DEF GetLatest
  <1>3. workers \in [Workers -> Worker]
    BY DEF TypeInv, TypeOK
  <1>4. CASE workers' = [workers EXCEPT ![w] = [s EXCEPT !.todo = @ \ {c}]]
    <2>1. t = [s EXCEPT !.todo = @ \ {c}]
      BY <1>3, <1>4
    <2>2. t.pc = "channels" /\ t.post = s.post /\ t.todo \subseteq s.todo /\ t.batch = s.batch
      BY <1>1, <2>1 DEF Worker
    <2> QED BY <1>1, <2>2 DEF Turn, BatchTurn
  <1>5. ASSUME ShouldAttempt(s, c), NEW n, \A r \in AttemptsOf(s.post.id, c) : r.no < n,
               workers' = [workers EXCEPT ![w] =
                  [s EXCEPT !.pc = "limit", !.todo = @ \ {c}, !.channel = c, !.no = n]]
        PROVE  Turn(s, t) /\ BatchTurn(s, t)
    <2>1. t = [s EXCEPT !.pc = "limit", !.todo = @ \ {c}, !.channel = c, !.no = n]
      BY <1>3, <1>5
    <2>2. /\ t.pc = "limit" /\ t.post = s.post /\ t.channel = c /\ t.no = n
          /\ t.todo = s.todo \ {c} /\ t.batch = s.batch
      BY <1>1, <2>1 DEF Worker
    <2>3. ~HasSentRow(s.post.id, c)
      <3> SUFFICES ASSUME NEW r \in AttemptsOf(s.post.id, c), r.status = "sent" PROVE FALSE
        BY DEF HasSentRow
      <3>1. IsLatest(r)
        BY DEF IsLatest, AttemptsOf, SameTarget, LogInv, SentIsLast
      <3> QED BY <1>5, <3>1 DEF ShouldAttempt
    <2>4. ~Taken(t, s.post.id, c)
      <3>1. \A r \in AttemptsOf(s.post.id, c) : r.no \in Nat
        BY DEF AttemptsOf, TypeInv, TypeOK, StoreTypeOK, AttemptRow
      <3> QED BY <1>5, <2>2, <3>1 DEF Taken
    <2> QED BY <1>1, <2>2, <2>3, <2>4 DEF Turn, BatchTurn
  <1> QED BY <1>2, <1>4, <1>5

LEMMA StepTurn ==
    ASSUME TypeInv, LogInv, NEW w \in Workers, NEW s, NEW t, s = workers[w], t = workers'[w],
           RunDue(w) \/ Process(w) \/ Crash(w) \/ StatementFails(w)
    PROVE  Turn(s, t) /\ (w # SchedulerProcess => BatchTurn(s, t))
  <1>1. s \in Worker /\ InHand(s) /\ workers \in [Workers -> Worker]
    BY DEF TypeInv, TypeOK
  <1>2. CASE RunDue(w)
    <2>1. PICK batch : t = [Idle EXCEPT !.pc = "due", !.batch = batch]
      BY <1>1, <1>2 DEF RunDue
    <2>2. t.pc = "due"
      BY <2>1 DEF Idle
    <2> QED BY <1>2, <2>2 DEF RunDue, Turn, Attempting
  <1>3. CASE NextDuePost(w)
    <2>1. PICK x \in s.batch :
             t = [Idle EXCEPT !.pc = "load", !.post = x, !.batch = s.batch \ {x}]
      BY <1>1, <1>3 DEF NextDuePost
    <2>2. t.pc = "load" /\ s.pc = "due" /\ s.batch # {}
      BY <1>3, <2>1 DEF Idle, NextDuePost
    <2> QED BY <2>2 DEF Turn, BatchTurn
  <1>4. CASE LoadChannels(w)
    <2>1. PICK eligible, v :
             \/ t = [s EXCEPT !.pc = "legacy", !.at = now]
             \/ t = [s EXCEPT !.pc = "store", !.at = now, !.err = TRUE, !.verdict = v]
             \/ t = [s EXCEPT !.pc = "channels", !.at = now,
                              !.eligible = eligible, !.todo = eligible]
      BY <1>1, <1>4 DEF LoadChannels
    <2>2. t.pc \in {"legacy", "store", "channels"} /\ t.post = s.post /\ t.batch = s.batch
      BY <1>1, <2>1 DEF Worker
    <2>3. s.pc = "load"
      BY <1>4 DEF LoadChannels
    <2> QED BY <2>2, <2>3 DEF Turn, BatchTurn, Attempting
  <1>5. CASE GetLatest(w)
    BY <1>5, GetLatestTurn
  <1>6. CASE CheckDailyLimit(w)
    <2>1. PICK at : \/ t = [s EXCEPT !.pc = "insert",
                                     !.result = [status |-> "retry", retryAt |-> at]]
                    \/ t = [s EXCEPT !.pc = "publish"]
      BY <1>1, <1>6 DEF CheckDailyLimit
    <2>2. PICK result : /\ result.status = "retry"
                        /\ \/ t = [s EXCEPT !.pc = "insert", !.result = result]
                           \/ t = [s EXCEPT !.pc = "publish"]
      <3>1. PICK result : result = [status |-> "retry", retryAt |-> at]
        OBVIOUS
      <3>2. result.status = "retry"
        BY <3>1
      <3> QED BY <2>1, <3>1, <3>2
    <2>3. /\ t.pc = "publish" \/ (t.pc = "insert" /\ t.result.status = "retry")
          /\ t.post = s.post /\ t.channel = s.channel /\ t.no = s.no /\ t.todo = s.todo
          /\ t.batch = s.batch
      BY <1>1, <2>2 DEF Worker
    <2>4. s.pc = "limit"
      BY <1>6 DEF CheckDailyLimit
    <2> QED BY <2>3, <2>4 DEF Turn, BatchTurn
  <1>7. CASE Publish(w)
    <2>1. PICK result : t = [s EXCEPT !.pc = "insert", !.result = result]
      BY <1>1, <1>7 DEF Publish
    <2>2. /\ t.pc = "insert" /\ t.post = s.post /\ t.channel = s.channel
          /\ t.no = s.no /\ t.todo = s.todo /\ t.batch = s.batch
      BY <1>1, <2>1 DEF Worker
    <2>3. s.pc = "publish"
      BY <1>7 DEF Publish
    <2> QED BY <2>2, <2>3 DEF Turn, BatchTurn
  <1>8. CASE InsertAttempt(w)
    <2>1. PICK failed : t = NextChannel(s, failed)
      BY <1>1, <1>8 DEF InsertAttempt
    <2>2. s.pc = "insert"
      BY <1>8 DEF InsertAttempt
    <2> QED BY <1>1, <2>1, <2>2, NextChannelTurn
  <1>9. CASE Reconcile(w)
    <2>1. PICK v : t = [s EXCEPT !.pc = "store", !.verdict = v]
      BY <1>1, <1>9 DEF Reconcile
    <2>2. t.pc = "store" /\ t.batch = s.batch
      BY <1>1, <2>1 DEF Worker
    <2> QED BY <2>2 DEF Turn, BatchTurn, Attempting
  <1>10. CASE StorePostState(w) \/ LegacyMarkSent(w)
    <2>1. PICK failed : t = Done(s, failed)
      BY <1>1, <1>10 DEF StorePostState, LegacyMarkSent
    <2> QED BY <1>1, <2>1, DoneTurn
  <1>11. CASE LegacyPublish(w)
    <2>1. PICK v : \/ t = [s EXCEPT !.pc = "mark"]
                   \/ t = [s EXCEPT !.pc = "store", !.err = TRUE, !.verdict = v]
      BY <1>1, <1>11 DEF LegacyPublish
    <2>2. t.pc \in {"mark", "store"} /\ t.batch = s.batch
      BY <1>1, <2>1 DEF Worker
    <2> QED BY <2>2 DEF Turn, BatchTurn, Attempting
  <1>12. CASE DeleteAfterSend(w) \/ Crash(w)
    <2>1. t = Idle
      BY <1>1, <1>12 DEF DeleteAfterSend, Crash
    <2>2. t.pc = "idle" /\ t.batch = {}
      BY <2>1 DEF Idle
    <2> QED BY <2>2 DEF Turn, BatchTurn, Attempting
  <1>13. CASE StatementFails(w)
    <2>1. \/ s.pc \in {"limit", "insert"} /\ t = NextChannel(s, TRUE)
          \/ t = Done(s, TRUE)
      BY <1>1, <1>13 DEF StatementFails
    <2> QED BY <1>1, <2>1, NextChannelTurn, DoneTurn
  <1> QED BY <1>2, <1>3, <1>4, <1>5, <1>6, <1>7, <1>8, <1>9, <1>10, <1>11, <1>12, <1>13
          DEF Process

\* A step takes one worker on.
LEMMA StepOfOne ==
    ASSUME TypeInv, NEW w \in Workers,
           \/ RunDue(w) \/ Process(w) \/ Crash(w) \/ StatementFails(w)
           \/ \E p \in PostIds, del \in BOOLEAN : SendNow(w, p, del)
    PROVE  \A v \in Workers : v # w => workers'[v] = workers[v]
  BY DEF TypeInv, TypeOK, RunDue, Process, NextDuePost, LoadChannels, GetLatest,
     CheckDailyLimit, Publish, InsertAttempt, Reconcile, StorePostState, LegacyPublish,
     LegacyMarkSent, DeleteAfterSend, Crash, StatementFails, SendNow

\* The list of a post and channel changes by an insert only, as long as the
\* post stays.
LEMMA ListKept ==
    ASSUME TypeInv, NEW w \in Workers, NEW p \in PostIds, NEW c \in ChannelIds, Exists(p)',
           \/ RunDue(w) \/ Process(w) \/ Crash(w) \/ StatementFails(w)
           \/ \E q \in PostIds, del \in BOOLEAN : SendNow(w, q, del),
           ~InsertAttempt(w)
    PROVE  AttemptsOf(p, c)' = AttemptsOf(p, c)
  <1>1. CASE DeleteAfterSend(w)
    <2>1. workers[w].post.id \in PostIds
      BY <1>1 DEF DeleteAfterSend, TypeInv, TypeOK, InHand, Snapshot
    <2>2. workers[w].post.id # p
      BY <1>1, <2>1 DEF DeleteAfterSend, DeletePost, Exists, TypeInv, TypeOK, StoreTypeOK
    <2> QED BY <1>1, <2>2 DEF DeleteAfterSend, DeletePost, AttemptsOf
  <1>2. CASE ~DeleteAfterSend(w)
    <2>1. attempts' = attempts
      BY <1>2 DEF storeVars, RunDue, Process, NextDuePost, LoadChannels, GetLatest,
         CheckDailyLimit, Publish, Reconcile, StorePostState, LegacyPublish,
         LegacyMarkSent, Crash, StatementFails, SendNow
    <2> QED BY <2>1 DEF AttemptsOf
  <1> QED BY <1>1, <1>2

\* Only Publish reaches a channel.
LEMMA PublishedKept ==
    ASSUME TypeInv, NEW w \in Workers, NEW p \in PostIds, NEW c \in ChannelIds,
           \/ RunDue(w) \/ Process(w) \/ Crash(w) \/ StatementFails(w)
           \/ \E q \in PostIds, del \in BOOLEAN : SendNow(w, q, del),
           ~Publish(w)
    PROVE  published'[p][c] = published[p][c]
  <1>1. CASE LegacyPublish(w)
    <2>1. PICK o : Deliver(workers[w].post.id, Fallback, o)
      BY <1>1 DEF LegacyPublish
    <2>2. c # Fallback /\ c \in Targets
      BY FallbackAssumption DEF Targets
    <2> QED BY <2>1, <2>2 DEF Deliver, TypeInv, TypeOK
  <1>2. CASE ~LegacyPublish(w)
    BY <1>2 DEF RunDue, Process, NextDuePost, LoadChannels, GetLatest,
       CheckDailyLimit, InsertAttempt, Reconcile, StorePostState, DeleteAfterSend,
       LegacyMarkSent, Crash, StatementFails, SendNow
  <1> QED BY <1>1, <1>2

\* What a publish does to the counts, when every answer arrives.
LEMMA PublishCounts ==
    ASSUME TypeInv, NothingLost, NEW w \in Workers, NEW s, NEW t, Publish(w),
           s = workers[w], t = workers'[w]
    PROVE  /\ s.pc = "publish" /\ t.pc = "insert"
           /\ \A p \in PostIds, c \in ChannelIds :
                 published'[p][c] =
                    IF t.result.status = "sent" /\ s.post.id = p /\ s.channel = c
                    THEN published[p][c] + 1 ELSE published[p][c]
  <1>1. PICK o \in Outcomes : /\ Deliver(s.post.id, s.channel, o)
                              /\ t = [s EXCEPT !.pc = "insert", !.result = ResultOf(s, o)]
    BY DEF Publish, TypeInv, TypeOK
  <1>2. s.pc = "publish" /\ t.pc = "insert" /\ t.result = ResultOf(s, o)
    <2>1. s \in Worker /\ s.pc = "publish"
      BY DEF Publish, TypeInv, TypeOK
    <2>2. PICK result : result = ResultOf(s, o)
      OBVIOUS
    <2>3. t = [s EXCEPT !.pc = "insert", !.result = result]
      BY <1>1, <2>2
    <2> QED BY <2>1, <2>2, <2>3 DEF Worker
  <1>3. o # "lost"
    BY DEF NothingLost
  <1>4. s.post.id \in PostIds /\ s.channel \in ChannelIds
    BY <1>2 DEF TypeInv, TypeOK, InHand, Snapshot
  <1>5. published \in [PostIds -> [Targets -> Nat]] /\ ChannelIds \subseteq Targets
    BY DEF TypeInv, TypeOK, Targets
  <1>6. CASE o = "ok"
    <2>1. t.result.status = "sent"
      BY <1>2, <1>6 DEF ResultOf
    <2>2. published' = [published EXCEPT ![s.post.id][s.channel] = @ + 1]
      BY <1>1, <1>6 DEF Deliver
    <2> QED BY <1>2, <1>4, <1>5, <2>1, <2>2
  <1>7. CASE o # "ok"
    <2>1. t.result.status # "sent"
      BY <1>2, <1>7 DEF ResultOf
    <2>2. published' = published
      BY <1>1, <1>3, <1>7 DEF Deliver
    <2> QED BY <1>2, <2>1, <2>2
  <1> QED BY <1>6, <1>7

LEMMA MayPublishFalls ==
    ASSUME NEW s, NEW t, Turn(s, t), s.pc # "due", NEW p, NEW c, MayPublish(t, p, c)
    PROVE  MayPublish(s, p, c)
  <1>1. t.post = s.post /\ s.post.id = p
    BY DEF Turn, MayPublish
  <1>2. CASE s.pc = "load" /\ t.pc = "channels"
    BY <1>1, <1>2 DEF MayPublish
  <1>3. CASE s.pc = "channels" /\ t.pc = "channels" /\ t.todo \subseteq s.todo
    BY <1>1, <1>3 DEF MayPublish
  <1>4. CASE s.pc = "channels" /\ t.pc = "limit"
             /\ t.channel \in s.todo /\ t.todo = s.todo \ {t.channel}
    BY <1>1, <1>4 DEF MayPublish
  <1>5. CASE s.pc \in {"limit", "publish"} /\ t.pc \in {"publish", "insert"}
             /\ t.channel = s.channel /\ t.todo = s.todo
    BY <1>1, <1>5 DEF MayPublish, Attempting
  <1>6. CASE s.pc \in {"limit", "insert"} /\ t.pc = "channels" /\ t.todo = s.todo
    BY <1>1, <1>6 DEF MayPublish, Attempting
  <1> QED BY <1>2, <1>3, <1>4, <1>5, <1>6 DEF Turn, MayPublish

\* A publish, and a row that says that there was none, use the request up.
LEMMA MayPublishNoMore ==
    ASSUME NEW s, NEW t, Turn(s, t), s.channel \notin s.todo,
           \/ s.pc = "publish" /\ t.pc = "insert" /\ t.result.status = "sent"
           \/ s.pc = "insert" /\ s.result.status # "sent" /\ t.pc = "channels"
    PROVE  MayPublish(s, s.post.id, s.channel) /\ ~MayPublish(t, s.post.id, s.channel)
  BY DEF Turn, MayPublish, Attempting

\* The claim of the scheduler process rises with a fault only.
LEMMA ClaimFalls ==
    ASSUME NEW s, NEW t, Turn(s, t), NEW p, NEW c,
           AttemptsOf(p, c)' = AttemptsOf(p, c), s.pc # "publish"
    PROVE  /\ s.pc # "insert" => Claim(t, p, c)' <= Claim(s, p, c)
           /\ Claim(t, p, c)' <= Claim(s, p, c) + 1
  <1>1. HasSentRow(p, c)' = HasSentRow(p, c)
    BY DEF HasSentRow
  <1>2. \A u : Taken(u, p, c)' = Taken(u, p, c)
    BY DEF Taken
  <1>3. CASE /\ t.post = s.post
             /\ s.pc = "channels" /\ t.pc = "limit"
             /\ ~HasSentRow(s.post.id, t.channel) /\ ~Taken(t, s.post.id, t.channel)
    BY <1>1, <1>2, <1>3 DEF Claim
  <1>4. CASE /\ t.post = s.post /\ s.pc = "limit"
             /\ t.pc = "publish" \/ (t.pc = "insert" /\ t.result.status # "sent")
             /\ t.channel = s.channel /\ t.no = s.no
    <2>1. Taken(t, p, c) = Taken(s, p, c)
      BY <1>4 DEF Taken
    <2> QED BY <1>1, <1>2, <1>4, <2>1 DEF Claim
  <1>5. CASE t.pc \notin Attempting
    <2>1. Claim(t, p, c)' = IF HasSentRow(p, c) THEN 0 ELSE 1
      BY <1>1, <1>5 DEF Claim, Attempting
    <2> QED BY <2>1 DEF Claim
  <1> QED BY <1>3, <1>4, <1>5 DEF Turn, Attempting

LEMMA ClaimPaid ==
    ASSUME NEW s, NEW t, Turn(s, t), NEW p, NEW c,
           AttemptsOf(p, c)' = AttemptsOf(p, c), s.pc = "publish", t.pc = "insert"
    PROVE  Claim(t, p, c)' + (IF t.result.status = "sent" /\ s.post.id = p /\ s.channel = c
                              THEN 1 ELSE 0) <= Claim(s, p, c)
  <1>1. HasSentRow(p, c)' = HasSentRow(p, c)
    BY DEF HasSentRow
  <1>2. t.post = s.post /\ t.channel = s.channel /\ t.no = s.no
    BY DEF Turn, Attempting
  <1>3. Taken(t, p, c)' = Taken(s, p, c)
    BY <1>2 DEF Taken
  <1> QED BY <1>1, <1>2, <1>3 DEF Claim

\* The scheduler process stores an attempt: if it published, there is a sent row
\* now, unless its number was taken by an attempt that had failed.
LEMMA ClaimStored ==
    ASSUME TypeInv, NEW w \in Workers, NEW s, NEW t, InsertAttempt(w),
           s = workers[w], t = workers'[w], t.pc = "channels",
           NEW p \in PostIds, NEW c \in ChannelIds, Exists(p), channels[c] # Null
    PROVE  Claim(t, p, c)' <= Claim(s, p, c)
  <1>1. /\ s.pc = "insert"
        /\ attempts' = IF CanInsertAttempt(RowOf(s)) THEN attempts \cup {RowOf(s)} ELSE attempts
    BY DEF InsertAttempt, InsertPublishAttempt
  <1>2. HasSentRow(p, c) => HasSentRow(p, c)'
    BY <1>1 DEF HasSentRow, AttemptsOf
  <1>3. Claim(t, p, c)' = IF HasSentRow(p, c)' THEN 0 ELSE 1
    BY DEF Claim
  <1>4. CASE s.post.id = p /\ s.channel = c /\ s.result.status = "sent" /\ ~Taken(s, p, c)
    <2>1. PICK row : row = RowOf(s)
      OBVIOUS
    <2>2. row.post = p /\ row.channel = c /\ row.no = s.no /\ row.status = "sent"
      BY <1>4, <2>1 DEF RowOf
    <2>3. CASE CanInsertAttempt(row)
      BY <1>1, <2>1, <2>2, <2>3, <1>3 DEF HasSentRow, AttemptsOf, Claim
    <2>4. CASE ~CanInsertAttempt(row)
      <3>1. PICK r \in attempts : SameTarget(r, row) /\ r.no = row.no
        BY <2>2, <2>4 DEF CanInsertAttempt
      <3>2. r \in AttemptsOf(p, c) /\ r.status = "sent"
        BY <1>4, <2>2, <3>1 DEF Taken, AttemptsOf, SameTarget
      <3>3. HasSentRow(p, c)'
        BY <1>2, <3>2 DEF HasSentRow
      <3> QED BY <1>3, <3>3 DEF Claim
    <2> QED BY <2>3, <2>4
  <1>5. CASE s.post.id = p /\ s.channel = c /\ s.result.status = "sent" /\ Taken(s, p, c)
    BY <1>1, <1>3, <1>5 DEF Claim
  <1>6. CASE ~(s.post.id = p /\ s.channel = c /\ s.result.status = "sent")
    BY <1>1, <1>2, <1>3, <1>6 DEF Claim
  <1> QED BY <1>4, <1>5, <1>6

\* A request stores an attempt: only one that was not sent can take the number
\* of the scheduler process away.
LEMMA ClaimOfOther ==
    ASSUME TypeInv, NEW w \in Workers, NEW s, InsertAttempt(w), s = workers[w],
           NEW k, NEW p \in PostIds, NEW c \in ChannelIds
    PROVE  /\ Claim(k, p, c)' <= Claim(k, p, c) + 1
           /\ Claim(k, p, c)' <= Claim(k, p, c)
              \/ (s.post.id = p /\ s.channel = c /\ s.result.status # "sent")
  <1>1. attempts' = IF CanInsertAttempt(RowOf(s)) THEN attempts \cup {RowOf(s)} ELSE attempts
    BY DEF InsertAttempt, InsertPublishAttempt
  <1>2. HasSentRow(p, c) => HasSentRow(p, c)'
    BY <1>1 DEF HasSentRow, AttemptsOf
  <1>3. Taken(k, p, c) => Taken(k, p, c)'
    BY <1>1 DEF Taken, AttemptsOf
  <1>4. ASSUME ~(s.post.id = p /\ s.channel = c /\ s.result.status # "sent")
        PROVE  Taken(k, p, c)' => Taken(k, p, c)
    <2> SUFFICES ASSUME NEW r \in AttemptsOf(p, c)', r.no = k.no, r.status # "sent"
                 PROVE  r \in AttemptsOf(p, c)
      BY DEF Taken
    <2>1. PICK row : row = RowOf(s)
      OBVIOUS
    <2>2. row.post = s.post.id /\ row.channel = s.channel /\ row.status = s.result.status
      BY <2>1 DEF RowOf
    <2> QED BY <1>1, <1>4, <2>1, <2>2 DEF AttemptsOf
  <1> QED BY <1>2, <1>3, <1>4 DEF Claim

LEMMA FewerRequests ==
    ASSUME NEW R, IsFiniteSet(R), NEW Q \in SUBSET R
    PROVE  /\ IsFiniteSet(Q) /\ Cardinality(Q) \in Nat /\ Cardinality(R) \in Nat
           /\ Cardinality(Q) <= Cardinality(R)
           /\ \A w \in R \ Q : Cardinality(Q) + 1 <= Cardinality(R)
  <1>1. IsFiniteSet(Q) /\ Cardinality(Q) <= Cardinality(R)
    BY FS_Subset
  <1>2. Cardinality(Q) \in Nat /\ Cardinality(R) \in Nat
    BY <1>1, FS_CardinalityType
  <1>3. ASSUME NEW w \in R \ Q PROVE Cardinality(Q) + 1 <= Cardinality(R)
    <2>1. IsFiniteSet(R \ {w}) /\ Cardinality(R \ {w}) = Cardinality(R) - 1
      BY FS_RemoveElement
    <2>2. Q \subseteq R \ {w}
      OBVIOUS
    <2>3. Cardinality(Q) <= Cardinality(R \ {w})
      BY <2>1, <2>2, FS_Subset
    <2> QED BY <1>2, <2>1, <2>3
  <1> QED BY <1>1, <1>2, <1>3

LEMMA ClaimType == \A s, p, c : Claim(s, p, c) \in Nat
  BY DEF Claim

\* No worker makes a post or a channel.
LEMMA WorkerCreatesNothing ==
    ASSUME TypeInv, NEW w \in Workers,
           \/ RunDue(w) \/ Process(w) \/ Crash(w) \/ StatementFails(w)
           \/ \E q \in PostIds, del \in BOOLEAN : SendNow(w, q, del)
    PROVE  channels' = channels /\ \A p \in PostIds : Exists(p)' => Exists(p)
  <1>1. CASE StorePostState(w) \/ LegacyMarkSent(w) \/ DeleteAfterSend(w)
    <2>1. PICK q \in PostIds : \/ ~Exists(q) /\ posts' = posts
                               \/ \E row : Exists(q) /\ posts' = [posts EXCEPT ![q] = row]
                               \/ posts' = [posts EXCEPT ![q] = Null]
      BY <1>1 DEF StorePostState, LegacyMarkSent, DeleteAfterSend, SetPostState, MarkSent,
         DeletePost, TypeInv, TypeOK, InHand, Snapshot
    <2>2. channels' = channels
      BY <1>1 DEF StorePostState, LegacyMarkSent, DeleteAfterSend
    <2> QED BY <2>1, <2>2 DEF Exists, TypeInv, TypeOK, StoreTypeOK
  <1>2. CASE ~(StorePostState(w) \/ LegacyMarkSent(w) \/ DeleteAfterSend(w))
    BY <1>2 DEF storeVars, Exists, RunDue, Process, NextDuePost, LoadChannels, GetLatest,
       CheckDailyLimit, Publish, InsertAttempt, Reconcile, LegacyPublish, Crash,
       StatementFails, SendNow
  <1> QED BY <1>1, <1>2

\* A step of a worker that is in the middle of something.
LEMMA WorkerShared ==
    ASSUME TypeInv, LogInv, SharedInv, NothingLost, TypeInv', NEW w \in Workers,
           RunDue(w) \/ Process(w) \/ Crash(w) \/ StatementFails(w)
    PROVE  SharedInv'
  <1>1. PICK s, t : s = workers[w] /\ t = workers'[w]
    OBVIOUS
  <1>2. Turn(s, t) /\ (w # SchedulerProcess => BatchTurn(s, t))
    BY <1>1, StepTurn
  <1>3. \A v \in Workers : v # w => workers'[v] = workers[v]
    BY StepOfOne
  <1>4. Shape(w)
    BY DEF SharedInv
  <1>5. \A v \in Workers : Shape(v)'
    <2>1. Shape(w)'
      <3>1. w # SchedulerProcess => t.batch = {} /\ t.pc # "due"
        BY <1>1, <1>2, <1>4 DEF Shape, BatchTurn
      <3>2. t.pc \in Attempting => t.channel \notin t.todo
        BY <1>1, <1>2, <1>4 DEF Shape, Turn, Attempting
      <3> QED BY <1>1, <3>1, <3>2 DEF Shape
    <2>2. ASSUME NEW v \in Workers, v # w PROVE Shape(v)'
      <3>1. Shape(v)
        BY DEF SharedInv
      <3> QED BY <1>3, <2>2, <3>1 DEF Shape
    <2> QED BY <2>1, <2>2
  <1>6. sends' = sends /\ faults' \in {faults, faults + 1} /\ sends \in Nat /\ faults \in Nat
    BY DEF TypeInv, TypeOK, RunDue, Process, NextDuePost, LoadChannels, GetLatest,
       CheckDailyLimit, Publish, InsertAttempt, Reconcile, StorePostState, LegacyPublish,
       LegacyMarkSent, DeleteAfterSend, Crash, StatementFails
  <1>7. ASSUME NEW p \in PostIds, NEW c \in ChannelIds
        PROVE  /\ IsFiniteSet(Requests(p, c)')
               /\ Exists(p)' /\ channels'[c] # Null => Bound(p, c)'
    <2>1. PICK R, Q : R = Requests(p, c) /\ Q = Requests(p, c)'
      OBVIOUS
    <2>2. Q \subseteq R
      <3> SUFFICES ASSUME NEW v \in Q PROVE v \in R
        OBVIOUS
      <3>1. v \in Workers \ {SchedulerProcess} /\ MayPublish(workers'[v], p, c)
        BY <2>1 DEF Requests
      <3>2. CASE v = w
        <4>1. s.pc # "due"
          BY <1>1, <1>4, <3>1, <3>2 DEF Shape
        <4>2. MayPublish(s, p, c)
          BY <1>1, <1>2, <3>1, <3>2, <4>1, MayPublishFalls
        <4> QED BY <1>1, <2>1, <3>1, <3>2, <4>2 DEF Requests
      <3>3. CASE v # w
        BY <1>3, <2>1, <3>1, <3>3 DEF Requests
      <3> QED BY <3>2, <3>3
    <2>3. IsFiniteSet(R)
      BY <2>1 DEF SharedInv
    <2>4. /\ IsFiniteSet(Q) /\ Cardinality(Q) \in Nat /\ Cardinality(R) \in Nat
          /\ Cardinality(Q) <= Cardinality(R)
          /\ \A v \in R \ Q : Cardinality(Q) + 1 <= Cardinality(R)
      BY <2>2, <2>3, FewerRequests
    <2> SUFFICES ASSUME Exists(p)', channels'[c] # Null PROVE Bound(p, c)'
      BY <2>1, <2>4
    <2>5. Exists(p) /\ channels[c] # Null
      BY WorkerCreatesNothing
    <2>6. PICK k, l : k = workers[SchedulerProcess] /\ l = workers'[SchedulerProcess]
      OBVIOUS
    <2>7. PICK a, b : a = Claim(k, p, c) /\ b = Claim(l, p, c)'
      OBVIOUS
    <2>8. a \in Nat /\ b \in Nat /\ published[p][c] \in Nat /\ published'[p][c] \in Nat
      BY <2>7, ClaimType DEF TypeInv, TypeOK, Targets, Claim
    <2>9. published[p][c] + a + Cardinality(R) <= 1 + faults + sends
      BY <2>1, <2>5, <2>6, <2>7 DEF SharedInv, Bound
    <2>10. published'[p][c] + b + Cardinality(Q) <= 1 + faults' + sends'
      <3>1. CASE Publish(w)
        <4>1. /\ s.pc = "publish" /\ t.pc = "insert"
              /\ published'[p][c] =
                    IF t.result.status = "sent" /\ s.post.id = p /\ s.channel = c
                    THEN published[p][c] + 1 ELSE published[p][c]
          BY <1>1, <3>1, PublishCounts
        <4>2. AttemptsOf(p, c)' = AttemptsOf(p, c) /\ ~InsertAttempt(w)
          <5>1. ~InsertAttempt(w)
            BY <1>1, <4>1 DEF InsertAttempt
          <5> QED BY <3>1, <5>1, ListKept DEF Process
        <4>3. CASE w = SchedulerProcess
          <5>1. b + (IF t.result.status = "sent" /\ s.post.id = p /\ s.channel = c
                     THEN 1 ELSE 0) <= a
            BY <1>1, <1>2, <2>6, <2>7, <4>1, <4>2, <4>3, ClaimPaid
          <5> QED BY <1>6, <2>4, <2>8, <2>9, <4>1, <5>1
        <4>4. CASE w # SchedulerProcess
          <5>1. b = a
            BY <1>3, <2>6, <2>7, <4>2, <4>4, WorkersAssumption DEF Claim, Taken, HasSentRow
          <5>2. CASE t.result.status = "sent" /\ s.post.id = p /\ s.channel = c
            <6>1. s.channel \notin s.todo
              BY <1>1, <1>4, <4>1 DEF Shape, Attempting
            <6>2. MayPublish(s, p, c) /\ ~MayPublish(t, p, c)
              BY <1>2, <4>1, <5>2, <6>1, MayPublishNoMore
            <6>3. w \in R \ Q
              BY <1>1, <2>1, <4>4, <6>2 DEF Requests
            <6> QED BY <1>6, <2>4, <2>8, <2>9, <4>1, <5>1, <5>2, <6>3
          <5>3. CASE ~(t.result.status = "sent" /\ s.post.id = p /\ s.channel = c)
            BY <1>6, <2>4, <2>8, <2>9, <4>1, <5>1, <5>3
          <5> QED BY <5>2, <5>3
        <4> QED BY <4>3, <4>4
      <3>2. CASE InsertAttempt(w)
        <4>1. s.pc = "insert" /\ ~Publish(w)
          BY <1>1, <3>2 DEF InsertAttempt, Publish
        <4>2. published'[p][c] = published[p][c]
          BY <4>1, PublishedKept
        <4>3. t.pc = "channels"
          <5>1. s \in Worker /\ workers \in [Workers -> Worker]
            BY <1>1 DEF TypeInv, TypeOK
          <5>2. PICK failed : t = NextChannel(s, failed)
            BY <1>1, <3>2, <5>1 DEF InsertAttempt
          <5> QED BY <5>1, <5>2 DEF NextChannel, Worker
        <4>4. CASE w = SchedulerProcess
          <5>1. b <= a
            BY <1>1, <2>5, <2>6, <2>7, <3>2, <4>3, <4>4, ClaimStored
          <5> QED BY <1>6, <2>4, <2>8, <2>9, <4>2, <5>1
        <4>5. CASE w # SchedulerProcess
          <5>1. l = k
            BY <1>3, <2>6, <4>5, WorkersAssumption
          <5>2. /\ b <= a + 1
                /\ b <= a \/ (s.post.id = p /\ s.channel = c /\ s.result.status # "sent")
            BY <1>1, <2>7, <3>2, <5>1, ClaimOfOther
          <5>3. CASE b <= a
            BY <1>6, <2>4, <2>8, <2>9, <4>2, <5>3
          <5>4. CASE s.post.id = p /\ s.channel = c /\ s.result.status # "sent"
            <6>1. s.channel \notin s.todo
              BY <1>1, <1>4, <4>1 DEF Shape, Attempting
            <6>2. MayPublish(s, p, c) /\ ~MayPublish(t, p, c)
              BY <1>2, <4>1, <4>3, <5>4, <6>1, MayPublishNoMore
            <6>3. w \in R \ Q
              BY <1>1, <2>1, <4>5, <6>2 DEF Requests
            <6> QED BY <1>6, <2>4, <2>8, <2>9, <4>2, <5>2, <6>3
          <5> QED BY <5>2, <5>3, <5>4
        <4> QED BY <4>4, <4>5
      <3>3. CASE ~Publish(w) /\ ~InsertAttempt(w)
        <4>1. published'[p][c] = published[p][c] /\ AttemptsOf(p, c)' = AttemptsOf(p, c)
          BY <3>3, PublishedKept, ListKept
        <4>2. s.pc # "publish" \/ Crash(w)
          BY <1>1, <3>3 DEF RunDue, Process, NextDuePost, LoadChannels, GetLatest,
             CheckDailyLimit, Reconcile, StorePostState, LegacyPublish, LegacyMarkSent,
             DeleteAfterSend, StatementFails
        <4>3. s.pc # "insert" \/ Crash(w) \/ StatementFails(w)
          BY <1>1, <3>3 DEF RunDue, Process, NextDuePost, LoadChannels, GetLatest,
             CheckDailyLimit, Reconcile, StorePostState, LegacyPublish, LegacyMarkSent,
             DeleteAfterSend
        <4>4. Crash(w) \/ StatementFails(w) => faults' = faults + 1
          BY DEF Crash, StatementFails
        <4>5. CASE w = SchedulerProcess
          <5>1. CASE s.pc # "publish" /\ s.pc # "insert"
            <6>1. b <= a
              BY <1>1, <1>2, <2>6, <2>7, <4>1, <4>5, <5>1, ClaimFalls
            <6> QED BY <1>6, <2>4, <2>8, <2>9, <4>1, <6>1
          <5>2. CASE s.pc = "insert"
            <6>1. b <= a + 1
              BY <1>1, <1>2, <2>6, <2>7, <4>1, <4>5, <5>2, ClaimFalls
            <6> QED BY <1>6, <2>4, <2>8, <2>9, <4>1, <4>3, <4>4, <5>2, <6>1
          <5>3. CASE s.pc = "publish"
            <6>1. t.pc = "idle"
              BY <1>1, <4>2, <5>3 DEF Crash, Idle, TypeInv, TypeOK
            <6>2. b <= 1
              BY <1>1, <2>6, <2>7, <4>5, <6>1 DEF Claim
            <6> QED BY <1>6, <2>4, <2>8, <2>9, <4>1, <4>2, <4>4, <5>3, <6>2
          <5> QED BY <5>1, <5>2, <5>3
        <4>6. CASE w # SchedulerProcess
          <5>1. b = a
            BY <1>3, <2>6, <2>7, <4>1, <4>6, WorkersAssumption DEF Claim, Taken, HasSentRow
          <5> QED BY <1>6, <2>4, <2>8, <2>9, <4>1, <5>1
        <4> QED BY <4>5, <4>6
      <3> QED BY <3>1, <3>2, <3>3
    <2> QED BY <2>1, <2>6, <2>7, <2>10 DEF Bound
  <1> QED BY <1>5, <1>7 DEF SharedInv

\* A request to send brings its own credit along.
LEMMA SendShared ==
    ASSUME TypeInv, SharedInv, NEW w \in Workers, NEW q \in PostIds, NEW del \in BOOLEAN,
           SendNow(w, q, del)
    PROVE  SharedInv'
  <1>1. PICK x : x = SnapshotOf(q)
    OBVIOUS
  <1>2. PICK t : t = [Idle EXCEPT !.pc = "load", !.post = x, !.force = TRUE,
                                  !.deleteAfter = del]
    OBVIOUS
  <1>3. w # SchedulerProcess /\ workers'[w] = t
    BY <1>1, <1>2 DEF SendNow, TypeInv, TypeOK
  <1>4. t.pc = "load" /\ t.batch = {} /\ t.todo = {}
    BY <1>2 DEF Idle
  <1>5. \A v \in Workers : v # w => workers'[v] = workers[v]
    BY StepOfOne
  <1>6. sends' = sends + 1 /\ faults' = faults /\ sends \in Nat /\ faults \in Nat
    BY DEF SendNow, TypeInv, TypeOK
  <1>7. ~Publish(w) /\ ~InsertAttempt(w)
    BY DEF SendNow, Publish, InsertAttempt
  <1>8. \A v \in Workers : Shape(v)'
    <2>1. Shape(w)'
      BY <1>3, <1>4 DEF Shape, Attempting
    <2>2. ASSUME NEW v \in Workers, v # w PROVE Shape(v)'
      <3>1. Shape(v)
        BY DEF SharedInv
      <3> QED BY <1>5, <2>2, <3>1 DEF Shape
    <2> QED BY <2>1, <2>2
  <1>9. ASSUME NEW p \in PostIds, NEW c \in ChannelIds
        PROVE  /\ IsFiniteSet(Requests(p, c)')
               /\ Exists(p)' /\ channels'[c] # Null => Bound(p, c)'
    <2>1. PICK R, Q : R = Requests(p, c) /\ Q = Requests(p, c)'
      OBVIOUS
    <2>2. Q \in SUBSET (R \cup {w})
      BY <1>5, <2>1 DEF Requests
    <2>3. IsFiniteSet(R)
      BY <2>1 DEF SharedInv
    <2>4. Cardinality(R) \in Nat
      BY <2>3, FS_CardinalityType
    <2>5. IsFiniteSet(R \cup {w}) /\ Cardinality(R \cup {w}) <= Cardinality(R) + 1
      <3>1. /\ IsFiniteSet(R \cup {w})
            /\ Cardinality(R \cup {w}) = IF w \in R THEN Cardinality(R) ELSE Cardinality(R) + 1
        BY <2>3, FS_AddElement
      <3> QED BY <2>4, <3>1
    <2>6. IsFiniteSet(Q) /\ Cardinality(Q) \in Nat /\ Cardinality(R \cup {w}) \in Nat
          /\ Cardinality(Q) <= Cardinality(R \cup {w})
      BY <2>2, <2>5, FewerRequests
    <2> SUFFICES ASSUME Exists(p)', channels'[c] # Null PROVE Bound(p, c)'
      BY <2>1, <2>6
    <2>7. Exists(p) /\ channels[c] # Null
      BY WorkerCreatesNothing
    <2>8. published'[p][c] = published[p][c] /\ AttemptsOf(p, c)' = AttemptsOf(p, c)
      BY <1>7, PublishedKept, ListKept
    <2>9. PICK k : k = workers[SchedulerProcess]
      OBVIOUS
    <2>10. workers'[SchedulerProcess] = k
      BY <1>3, <1>5, <2>9, WorkersAssumption
    <2>11. PICK a : a = Claim(k, p, c)
      OBVIOUS
    <2>12. Claim(k, p, c)' = a
      BY <2>8, <2>11 DEF Claim, Taken, HasSentRow
    <2>13. a \in Nat /\ published[p][c] \in Nat
      BY <2>11, ClaimType DEF TypeInv, TypeOK, Targets
    <2>14. published[p][c] + a + Cardinality(R) <= 1 + faults + sends
      BY <2>1, <2>7, <2>9, <2>11 DEF SharedInv, Bound
    <2>15. published'[p][c] + a + Cardinality(Q) <= 1 + faults' + sends'
      BY <1>6, <2>4, <2>5, <2>6, <2>8, <2>13, <2>14
    <2> QED BY <2>1, <2>10, <2>12, <2>15 DEF Bound
  <1> QED BY <1>8, <1>9 DEF SharedInv

\* Nothing the argument looks at changes.
LEMMA NothingShared ==
    ASSUME SharedInv, UNCHANGED <<posts, channels, attempts, workers, published, sends, faults>>
    PROVE  SharedInv'
  <1>1. \A w \in Workers : Shape(w)' = Shape(w)
    BY DEF Shape
  <1>2. \A p, c : Requests(p, c)' = Requests(p, c) /\ Exists(p)' = Exists(p)
    BY DEF Requests, Exists
  <1>3. \A p, c : Bound(p, c)' = Bound(p, c)
    BY <1>2 DEF Bound, Claim, Taken, HasSentRow, AttemptsOf
  <1> QED BY <1>1, <1>2, <1>3 DEF SharedInv

LEMMA NextShared ==
    ASSUME TypeInv, TypeInv', LogInv, SharedInv, NothingLost, [Next]_vars PROVE SharedInv'
  <1>1. CASE Tick \/ UNCHANGED vars
    BY <1>1, NothingShared DEF Tick, vars, storeVars
  <1>2. ASSUME NEW w \in Workers, NEW p \in PostIds, Send(w, p) PROVE SharedInv'
    BY <1>2, SendIsSendNow, SendShared
  <1> QED BY <1>1, <1>2, WorkerShared DEF Next

\* A post that has never been published and that nobody has in hand.
LEMMA FreshBound ==
    ASSUME NEW p \in PostIds, NEW c \in ChannelIds, published[p][c] = 0,
           sends \in Nat, faults \in Nat,
           \A w \in Workers : workers[w].pc \in {"load", "channels"} \cup Attempting =>
                                  workers[w].post.id # p
    PROVE  Requests(p, c) = {} /\ Bound(p, c)
  <1>1. Requests(p, c) = {}
    BY DEF Requests, MayPublish
  <1>2. Claim(workers[SchedulerProcess], p, c) \in {0, 1}
    BY WorkersAssumption DEF Claim, Attempting
  <1>3. Cardinality({}) = 0
    BY FS_EmptySet
  <1> QED BY <1>1, <1>2, <1>3 DEF Bound

LEMMA InitShared == Init => SharedInv
  <1> SUFFICES ASSUME Init PROVE SharedInv
    OBVIOUS
  <1>1. \A w \in Workers : workers[w].pc = "idle" /\ workers[w].batch = {}
    BY DEF Init, Idle
  <1>2. \A w \in Workers : Shape(w)
    BY <1>1 DEF Shape, Attempting
  <1>3. ASSUME NEW p \in PostIds, NEW c \in ChannelIds
        PROVE  IsFiniteSet(Requests(p, c)) /\ Bound(p, c)
    <2>1. published[p][c] = 0 /\ sends \in Nat /\ faults \in Nat
      BY DEF Init, Targets
    <2>2. Requests(p, c) = {} /\ Bound(p, c)
      BY <1>1, <2>1, FreshBound DEF Attempting
    <2> QED BY <2>2, FS_EmptySet
  <1> QED BY <1>2, <1>3 DEF SharedInv

\* What the bound says of the publishes that have been made.
LEMMA SharedBounds ==
    ASSUME SharedInv, TypeInv, NEW p \in PostIds, NEW c \in ChannelIds,
           Exists(p), channels[c] # Null
    PROVE  published[p][c] <= 1 + faults + sends
  <1>1. PICK a, n : a = Claim(workers[SchedulerProcess], p, c) /\ n = Cardinality(Requests(p, c))
    OBVIOUS
  <1>2. a \in Nat /\ n \in Nat
    BY <1>1, ClaimType, FS_CardinalityType DEF SharedInv
  <1>3. published[p][c] \in Nat /\ sends \in Nat /\ faults \in Nat
    BY DEF TypeInv, TypeOK, Targets
  <1>4. published[p][c] + a + n <= 1 + faults + sends
    BY <1>1 DEF SharedInv, Bound
  <1> QED BY <1>2, <1>3, <1>4

\* With the requests of any number of users racing with the scheduler process, a
\* channel gets a post once, plus once more for each request and each fault at
\* most: two workers that have looked at the log before either has written both
\* publish, but neither comes back for more.
THEOREM RacesBoundedCorrect ==
    NothingLost /\ Spec =>
        [](\A p \in PostIds, c \in ChannelIds :
              Exists(p) /\ channels[c] # Null => published[p][c] <= 1 + faults + sends)
  <1>1. NothingLost /\ IInv /\ IInv' /\ SharedInv /\ [Next]_vars => NothingLost' /\ SharedInv'
    BY NextShared DEF IInv, NothingLost
  <1>2. IInv /\ SharedInv =>
           \A p \in PostIds, c \in ChannelIds :
              Exists(p) /\ channels[c] # Null => published[p][c] <= 1 + faults + sends
    BY SharedBounds DEF IInv
  <1> QED BY <1>1, <1>2, InitShared, LogCorrect, PTL DEF Spec

-------------------------------------------------------------------------------
(***************************************************************************)
(* The daily limit: the rows of the day, and the workers on their way to   *)
(* one.                                                                    *)
(***************************************************************************)
\* Past the check of the limit, and about to write a row that counts.
PastCheck(s) ==
    s.pc = "publish" \/ (s.pc = "insert" /\ s.result.status = "sent")

\* The workers that are about to write a row of channel c for the day of t.
Racing(c, t) ==
    {w \in Workers : /\ PastCheck(workers[w])
                     /\ workers[w].channel = c
                     /\ DayOf(workers[w].at) = DayOf(t)}

\* Whoever passes the check has seen fewer than the limit, and at that moment
\* everybody but itself may be past it too.
RoomInv ==
    \A c \in ChannelIds, t \in Moments :
        Policy[c].maxPostsPerDay # Null =>
            Cardinality(SentToday(c, t)) + Cardinality(Racing(c, t))
               < Policy[c].maxPostsPerDay + Cardinality(Workers)

\* Both sides of the sum are numbers.
LEMMA SentTodayFinite ==
    ASSUME TypeInv, NEW c, NEW t
    PROVE  IsFiniteSet(SentToday(c, t)) /\ Cardinality(SentToday(c, t)) \in Nat
  BY FS_Subset, FS_CardinalityType DEF SentToday, TypeInv, TypeOK, StoreTypeOK

\* At most all workers race.
LEMMA RacingFinite ==
    ASSUME IsFiniteSet(Workers), NEW c, NEW t
    PROVE  /\ IsFiniteSet(Racing(c, t))
           /\ Cardinality(Racing(c, t)) \in Nat
           /\ Cardinality(Workers) \in Nat
           /\ Cardinality(Racing(c, t)) <= Cardinality(Workers)
  <1>1. Racing(c, t) \in SUBSET Workers
    BY DEF Racing
  <1> QED BY <1>1, FS_Subset, FS_CardinalityType

\* A limit that is there is a number.
LEMMA LimitType ==
    ASSUME NEW c \in ChannelIds, Policy[c].maxPostsPerDay # Null
    PROVE  Policy[c].maxPostsPerDay \in Nat
  BY PolicyAssumption DEF Policies

\* Deleted rows and workers that give up leave more room.
LEMMA RoomKept ==
    ASSUME TypeInv, IsFiniteSet(Workers), RoomInv,
           NEW c \in ChannelIds, NEW t \in Moments, Policy[c].maxPostsPerDay # Null,
           SentToday(c, t)' \subseteq SentToday(c, t), Racing(c, t)' \subseteq Racing(c, t)
    PROVE  Cardinality(SentToday(c, t))' + Cardinality(Racing(c, t))'
              < Policy[c].maxPostsPerDay + Cardinality(Workers)
  <1>1. PICK S, S2, R, R2 : /\ S = SentToday(c, t) /\ S2 = SentToday(c, t)'
                            /\ R = Racing(c, t) /\ R2 = Racing(c, t)'
    OBVIOUS
  <1>2. /\ IsFiniteSet(S) /\ IsFiniteSet(R) /\ S2 \subseteq S /\ R2 \subseteq R
        /\ Cardinality(Workers) \in Nat
    BY <1>1, SentTodayFinite, RacingFinite
  <1>3. /\ Cardinality(S2) <= Cardinality(S) /\ Cardinality(R2) <= Cardinality(R)
        /\ IsFiniteSet(S2) /\ IsFiniteSet(R2)
    BY <1>2, FS_Subset
  <1>4. PICK a, b, a2, b2 \in Nat : /\ a = Cardinality(S) /\ b = Cardinality(R)
                                    /\ a2 = Cardinality(S2) /\ b2 = Cardinality(R2)
    BY <1>2, <1>3, FS_CardinalityType
  <1>5. PICK m, n \in Nat : m = Policy[c].maxPostsPerDay /\ n = Cardinality(Workers)
    BY <1>2, LimitType
  <1>6. a + b < m + n
    BY <1>1, <1>4, <1>5 DEF RoomInv
  <1>7. a2 <= a /\ b2 <= b
    BY <1>3, <1>4
  <1>8. a2 + b2 < m + n
    BY <1>6, <1>7
  <1> QED BY <1>1, <1>4, <1>5, <1>8

\* A worker gets to a publish through the check only, and to a sent row through
\* the publish only.
LEMMA ToPublish ==
    ASSUME TypeInv, LogInv, NEW w \in Workers, NEW s, NEW t, s = workers[w], t = workers'[w],
           RunDue(w) \/ Process(w) \/ Crash(w) \/ StatementFails(w),
           PastCheck(t)
    PROVE  /\ t.channel = s.channel /\ t.at = s.at
           /\ CheckDailyLimit(w) \/ PastCheck(s)
  <1>1. s \in Worker /\ workers \in [Workers -> Worker]
    BY DEF TypeInv, TypeOK
  <1>2. s.pc \in {"limit", "publish"}
    BY StepTurn DEF Turn, PastCheck, Attempting
  <1>3. CASE CheckDailyLimit(w)
    <2>1. PICK at : \/ t = [s EXCEPT !.pc = "insert",
                                     !.result = [status |-> "retry", retryAt |-> at]]
                    \/ t = [s EXCEPT !.pc = "publish"]
      BY <1>1, <1>3 DEF CheckDailyLimit
    <2>2. t.channel = s.channel /\ t.at = s.at
      BY <1>1, <2>1 DEF Worker
    <2> QED BY <1>3, <2>2
  <1>4. CASE Publish(w)
    <2>1. PICK result : t = [s EXCEPT !.pc = "insert", !.result = result]
      BY <1>1, <1>4 DEF Publish
    <2>2. t.channel = s.channel /\ t.at = s.at /\ s.pc = "publish"
      BY <1>1, <1>4, <2>1 DEF Worker, Publish
    <2> QED BY <2>2 DEF PastCheck
  <1>5. CASE Crash(w) \/ StatementFails(w)
    <2>1. t = Idle \/ t = NextChannel(s, TRUE)
      BY <1>1, <1>2, <1>5 DEF Crash, StatementFails
    <2>2. NextChannel(s, TRUE).pc = "channels" /\ Idle.pc = "idle"
      BY <1>1 DEF Idle, NextChannel, Worker
    <2> QED BY <2>1, <2>2 DEF PastCheck
  <1>6. \/ CheckDailyLimit(w) \/ Publish(w) \/ Crash(w) \/ StatementFails(w)
    BY <1>2 DEF RunDue, Process, NextDuePost, LoadChannels, GetLatest, InsertAttempt,
       Reconcile, StorePostState, LegacyPublish, LegacyMarkSent, DeleteAfterSend
  <1> QED BY <1>3, <1>4, <1>5, <1>6

\* Whoever passes the check has counted less than the limit: with every other
\* worker past the check as well, there is room for all.
LEMMA CheckLeavesRoom ==
    ASSUME TypeInv, TypeInv', IsFiniteSet(Workers), NEW w \in Workers, CheckDailyLimit(w),
           PastCheck(workers'[w]), NEW c \in ChannelIds, NEW t \in Moments,
           c = workers[w].channel, DayOf(workers[w].at) = DayOf(t),
           Policy[c].maxPostsPerDay # Null
    PROVE  Cardinality(SentToday(c, t))' + Cardinality(Racing(c, t))'
              < Policy[c].maxPostsPerDay + Cardinality(Workers)
  <1>1. PICK s \in Worker : s = workers[w]
    BY DEF TypeInv, TypeOK
  <1>2. PICK m, sent, n, k \in Nat :
           /\ m = Policy[c].maxPostsPerDay /\ sent = Cardinality(SentToday(c, s.at))
           /\ n = Cardinality(Workers) /\ k = Cardinality(Racing(c, t))'
    <2>1. Racing(c, t)' \subseteq Workers
      BY DEF Racing
    <2>2. IsFiniteSet(Racing(c, t)')
      BY <2>1, FS_Subset
    <2> QED BY <2>2, LimitType, SentTodayFinite, FS_CardinalityType
  <1>3. k <= n
    <2>1. Racing(c, t)' \in SUBSET Workers
      BY DEF Racing
    <2> QED BY <1>2, <2>1, FS_Subset
  <1>4. PICK result : result = [status |-> "retry", retryAt |-> DayEnd(s.at)]
    OBVIOUS
  <1>5. PICK r : /\ workers' = [workers EXCEPT ![w] = r]
                 /\ \/ /\ sent >= m
                       /\ r = [s EXCEPT !.pc = "insert", !.result = result]
                    \/ /\ ~(sent >= m)
                       /\ r = [s EXCEPT !.pc = "publish"]
    BY <1>1, <1>2, <1>4 DEF CheckDailyLimit
  <1>6. r = workers'[w]
    BY <1>5 DEF TypeInv, TypeOK
  <1>7. sent < m
    <2> SUFFICES ASSUME ~(sent < m) PROVE FALSE
      OBVIOUS
    <2>1. r = [s EXCEPT !.pc = "insert", !.result = result]
      BY <1>2, <1>5
    <2>2. r.pc = "insert" /\ r.result = result
      BY <2>1 DEF Worker
    <2> QED BY <1>4, <1>6, <2>2 DEF PastCheck
  <1>8. SentToday(c, t)' = SentToday(c, s.at)
    BY <1>1 DEF SentToday, CheckDailyLimit, storeVars
  <1>9. sent + k < m + n
    BY <1>3, <1>7
  <1> QED BY <1>2, <1>8, <1>9

\* The worker that inserts moves from those who race to the rows.
LEMMA InsertTakesRoom ==
    ASSUME TypeInv, TypeInv', LogInv, IsFiniteSet(Workers), RoomInv, NEW w \in Workers,
           InsertAttempt(w), NEW c \in ChannelIds, NEW t \in Moments,
           Policy[c].maxPostsPerDay # Null,
           Racing(c, t)' \subseteq Racing(c, t) \ {w}, w \in Racing(c, t)
    PROVE  Cardinality(SentToday(c, t))' + Cardinality(Racing(c, t))'
              < Policy[c].maxPostsPerDay + Cardinality(Workers)
  <1>1. PICK row : row = RowOf(workers[w])
    OBVIOUS
  <1>2. attempts' \subseteq attempts \cup {row}
    BY <1>1 DEF InsertAttempt, InsertPublishAttempt
  <1>3. PICK S, S2, R, R2 : /\ S = SentToday(c, t) /\ S2 = SentToday(c, t)'
                            /\ R = Racing(c, t) /\ R2 = Racing(c, t)'
    OBVIOUS
  <1>4. S2 \subseteq S \cup {row}
    BY <1>2, <1>3 DEF SentToday
  <1>5. IsFiniteSet(S) /\ IsFiniteSet(R) /\ Cardinality(Workers) \in Nat
    BY <1>3, SentTodayFinite, RacingFinite
  <1>6. /\ IsFiniteSet(S \cup {row}) /\ Cardinality(S \cup {row}) <= Cardinality(S) + 1
        /\ Cardinality(S) \in Nat
    <2>1. PICK a \in Nat : a = Cardinality(S)
      BY <1>5, FS_CardinalityType
    <2>2. /\ IsFiniteSet(S \cup {row})
          /\ Cardinality(S \cup {row}) \in {a, a + 1}
      BY <1>5, <2>1, FS_AddElement
    <2> QED BY <2>1, <2>2
  <1>7. /\ IsFiniteSet(R \ {w}) /\ Cardinality(R \ {w}) = Cardinality(R) - 1
        /\ Cardinality(R) \in Nat
    BY <1>3, <1>5, FS_RemoveElement, FS_CardinalityType
  <1>8. /\ IsFiniteSet(S2) /\ Cardinality(S2) <= Cardinality(S \cup {row})
        /\ IsFiniteSet(R2) /\ Cardinality(R2) <= Cardinality(R \ {w})
    BY <1>3, <1>4, <1>6, <1>7, FS_Subset
  <1>9. PICK a, b, a2, b2, m, n, a3 \in Nat :
           /\ a = Cardinality(S) /\ b = Cardinality(R) /\ a2 = Cardinality(S2)
           /\ b2 = Cardinality(R2) /\ m = Policy[c].maxPostsPerDay
           /\ n = Cardinality(Workers) /\ a3 = Cardinality(S \cup {row})
    BY <1>5, <1>6, <1>7, <1>8, LimitType, FS_CardinalityType
  <1>10. a + b < m + n
    BY <1>3, <1>9 DEF RoomInv
  <1>11. a2 <= a + 1 /\ b2 <= b - 1
    <2>1. a2 <= a3 /\ a3 <= a + 1
      BY <1>6, <1>8, <1>9
    <2> QED BY <1>7, <1>8, <1>9, <2>1
  <1>12. a2 + b2 < m + n
    BY <1>10, <1>11
  <1> QED BY <1>3, <1>9, <1>12

\* Only InsertAttempt writes rows.
LEMMA RowsFall ==
    ASSUME TypeInv, NEW w \in Workers,
           \/ RunDue(w) \/ Process(w) \/ Crash(w) \/ StatementFails(w)
           \/ \E q \in PostIds, del \in BOOLEAN : SendNow(w, q, del),
           ~InsertAttempt(w)
    PROVE  attempts' \subseteq attempts
  <1>1. CASE DeleteAfterSend(w)
    BY <1>1 DEF DeleteAfterSend, DeletePost
  <1>2. CASE ~DeleteAfterSend(w)
    BY <1>2 DEF storeVars, RunDue, Process, NextDuePost, LoadChannels, GetLatest,
       CheckDailyLimit, Publish, Reconcile, StorePostState, LegacyPublish,
       LegacyMarkSent, Crash, StatementFails, SendNow
  <1> QED BY <1>1, <1>2

\* No step of a worker takes more room than there is.
LEMMA WorkerRoom ==
    ASSUME TypeInv, TypeInv', LogInv, IsFiniteSet(Workers), RoomInv, NEW w \in Workers,
           RunDue(w) \/ Process(w) \/ Crash(w) \/ StatementFails(w)
    PROVE  RoomInv'
  <1>1. PICK s, r : s = workers[w] /\ r = workers'[w]
    OBVIOUS
  <1>2. \A v \in Workers : v # w => workers'[v] = workers[v]
    BY StepOfOne
  <1> SUFFICES ASSUME NEW c \in ChannelIds, NEW t \in Moments,
                      Policy[c].maxPostsPerDay # Null
               PROVE  Cardinality(SentToday(c, t))' + Cardinality(Racing(c, t))'
                         < Policy[c].maxPostsPerDay + Cardinality(Workers)
    BY DEF RoomInv
  <1>3. Racing(c, t)' \subseteq Racing(c, t) \cup {w}
    BY <1>2 DEF Racing
  <1>4. CASE InsertAttempt(w)
    <2>1. r.pc = "channels" /\ s.pc = "insert" /\ s \in Worker
      <3>1. PICK failed \in BOOLEAN : workers' = [workers EXCEPT ![w] = NextChannel(s, failed)]
        BY <1>1, <1>4 DEF InsertAttempt
      <3> QED BY <1>1, <1>4, <3>1 DEF InsertAttempt, NextChannel, TypeInv, TypeOK, Worker
    <2>2. w \notin Racing(c, t)'
      BY <1>1, <2>1 DEF Racing, PastCheck
    <2>3. Racing(c, t)' \subseteq Racing(c, t) \ {w}
      BY <1>3, <2>2
    <2>4. CASE w \in Racing(c, t)
      BY <1>4, <2>3, <2>4, InsertTakesRoom
    <2>5. CASE w \notin Racing(c, t)
      <3>1. PICK row : row = RowOf(s)
        OBVIOUS
      <3>2. attempts' \subseteq attempts \cup {row}
        BY <1>1, <1>4, <3>1 DEF InsertAttempt, InsertPublishAttempt
      <3>3. row.channel = s.channel /\ row.at = s.at /\ row.status = s.result.status
        BY <3>1 DEF RowOf
      <3>4. ~(row.channel = c /\ row.status = "sent" /\ DayOf(row.at) = DayOf(t))
        BY <1>1, <2>1, <2>5, <3>3 DEF Racing, PastCheck
      <3>5. SentToday(c, t)' \subseteq SentToday(c, t)
        BY <3>2, <3>4 DEF SentToday
      <3> QED BY <2>3, <3>5, RoomKept
    <2> QED BY <2>4, <2>5
  <1>5. CASE ~InsertAttempt(w)
    <2>1. SentToday(c, t)' \subseteq SentToday(c, t)
      BY <1>5, RowsFall DEF SentToday
    <2>2. CASE w \in Racing(c, t)' /\ w \notin Racing(c, t)
      <3>1. PastCheck(r) /\ r.channel = c /\ DayOf(r.at) = DayOf(t)
        BY <1>1, <2>2 DEF Racing
      <3>2. r.channel = s.channel /\ r.at = s.at /\ (CheckDailyLimit(w) \/ PastCheck(s))
        BY <1>1, <3>1, ToPublish
      <3>3. CheckDailyLimit(w)
        BY <1>1, <2>2, <3>1, <3>2 DEF Racing
      <3> QED BY <1>1, <3>1, <3>2, <3>3, CheckLeavesRoom
    <2>3. CASE ~(w \in Racing(c, t)' /\ w \notin Racing(c, t))
      BY <1>3, <2>1, <2>3, RoomKept
    <2> QED BY <2>2, <2>3
  <1> QED BY <1>4, <1>5

\* A step that starts no attempt and writes no row.
LEMMA RoomStays ==
    ASSUME TypeInv, IsFiniteSet(Workers), RoomInv, attempts' \subseteq attempts,
           \A w \in Workers : workers'[w] = workers[w] \/ ~PastCheck(workers'[w])
    PROVE  RoomInv'
  <1> SUFFICES ASSUME NEW c \in ChannelIds, NEW t \in Moments,
                      Policy[c].maxPostsPerDay # Null
               PROVE  Cardinality(SentToday(c, t))' + Cardinality(Racing(c, t))'
                         < Policy[c].maxPostsPerDay + Cardinality(Workers)
    BY DEF RoomInv
  <1>1. SentToday(c, t)' \subseteq SentToday(c, t) /\ Racing(c, t)' \subseteq Racing(c, t)
    BY DEF SentToday, Racing
  <1> QED BY <1>1, RoomKept

\* The same of every step.
LEMMA NextRoom ==
    ASSUME TypeInv, TypeInv', LogInv, IsFiniteSet(Workers), RoomInv, [Next]_vars
    PROVE  RoomInv'
  <1>1. CASE Tick \/ UNCHANGED vars
    BY <1>1, RoomStays DEF Tick, vars, storeVars
  <1>2. ASSUME NEW w \in Workers, NEW p \in PostIds, Send(w, p) PROVE RoomInv'
    <2>1. PICK q \in PostIds, del \in BOOLEAN : SendNow(w, q, del)
      BY <1>2, SendIsSendNow
    <2>2. workers'[w].pc = "load"
      <3>1. PICK x : workers' = [workers EXCEPT ![w] =
                        [Idle EXCEPT !.pc = "load", !.post = x, !.force = TRUE,
                                     !.deleteAfter = del]]
        BY <2>1 DEF SendNow
      <3>2. workers'[w] = [Idle EXCEPT !.pc = "load", !.post = x, !.force = TRUE,
                                       !.deleteAfter = del]
        BY <3>1 DEF TypeInv, TypeOK
      <3> QED BY <3>2 DEF Idle
    <2>3. attempts' = attempts
      BY <2>1 DEF SendNow, storeVars
    <2>4. \A v \in Workers : workers'[v] = workers[v] \/ ~PastCheck(workers'[v])
      BY <2>1, <2>2, StepOfOne DEF PastCheck
    <2> QED BY <2>3, <2>4, RoomStays
  <1> QED BY <1>1, <1>2, WorkerRoom DEF Next

\* There is a worker, so that an empty log leaves room.
LEMMA FreshRoom ==
    ASSUME IsFiniteSet(Workers), attempts = {}, \A w \in Workers : workers[w].pc = "idle"
    PROVE  RoomInv
  <1> SUFFICES ASSUME NEW c \in ChannelIds, NEW t \in Moments,
                      Policy[c].maxPostsPerDay # Null
               PROVE  Cardinality(SentToday(c, t)) + Cardinality(Racing(c, t))
                         < Policy[c].maxPostsPerDay + Cardinality(Workers)
    BY DEF RoomInv
  <1>1. SentToday(c, t) = {} /\ Racing(c, t) = {}
    BY DEF SentToday, Racing, PastCheck
  <1>2. Cardinality({}) = 0
    BY FS_EmptySet
  <1>3. Cardinality(Workers) \in Nat \ {0}
    BY WorkersAssumption, FS_CardinalityType, FS_EmptySet
  <1> QED BY <1>1, <1>2, <1>3, LimitType

\* With any number of users sending while the scheduler process runs, the rows
\* a check of the daily limit counts exceed the limit by at most one for each
\* further worker.  It says nothing of a post whose row was not stored.
THEOREM RoomCorrect == IsFiniteSet(Workers) /\ Spec => []RoomInv
  <1>1. IsFiniteSet(Workers) /\ IInv /\ IInv' /\ RoomInv /\ [Next]_vars
           => IsFiniteSet(Workers)' /\ RoomInv'
    BY NextRoom DEF IInv
  <1>2. IsFiniteSet(Workers) /\ Init => RoomInv
    BY FreshRoom DEF Init, Idle
  <1> QED BY <1>1, <1>2, LogCorrect, PTL DEF Spec
================================================================================
