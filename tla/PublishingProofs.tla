---------------------------- MODULE PublishingProofs ----------------------------
(***************************************************************************)
(* Planning and publishing on one database, for any number of posts,       *)
(* channels, requests and workers: what the approval policy holds back is  *)
(* not published, the attempt log stays intact while posts and channels    *)
(* vanish, and a channel gets a post no more often than faults and races   *)
(* explain.  What Planning sees of it all is a behaviour of Planning.      *)
(* Between the steps of Scheduler the tables change as Planning lets them;  *)
(* what each of the two relies on has to survive the steps of the other.   *)
(***************************************************************************)
EXTENDS Publishing, PlanningProofs

\* The lemmas about Scheduler, in the instance Publishing uses.
SP == INSTANCE SchedulerProofs WITH StartTimes <- {}

\* What a worker has in its batch or in hand was planned or had been sent.
HandPlanned(s) ==
    /\ \A x \in s.batch : x.id \in cleared
    /\ s.pc \notin {"idle", "due"} => s.post.id \in cleared

Planned ==
    /\ OnlyClearedIsPublished
    /\ \A w \in Workers : HandPlanned(workers[w])

\* An id that is handed out belongs to no post a worker could still have in hand.
IdsUsed == \A p \in PostIds : Exists(p) \/ p \in cleared => p <= lastId

PublishingInv ==
    /\ IInv
    /\ SP!TypeInv
    /\ SP!LogInv
    /\ Planned
    /\ IdsUsed

-------------------------------------------------------------------------------
(***************************************************************************)
(* The steps of S are those SP is about.                                   *)
(***************************************************************************)
LEMMA SameTables ==
    /\ StoreTypeOK <=> SP!StoreTypeOK
    /\ S!StoreTypeOK <=> SP!StoreTypeOK
    /\ S!storeVars = SP!storeVars /\ storeVars = SP!storeVars
    /\ S!Targets = SP!Targets
    /\ S!Idle = SP!Idle
    /\ StoreTypeOK' <=> SP!StoreTypeOK'
  BY DEF StoreTypeOK, PostRow, MaybeMoments, Moments, PostStatus, ChannelStatus,
     AttemptRow, AttemptStatus,
     S!StoreTypeOK, S!PostRow, S!MaybeMoments, S!Moments, S!PostStatus,
     S!ChannelStatus, S!AttemptRow, S!AttemptStatus, S!IsFiniteSet,
     SP!StoreTypeOK, SP!PostRow, SP!MaybeMoments, SP!Moments, SP!PostStatus,
     SP!ChannelStatus, SP!AttemptRow, SP!AttemptStatus, IsFiniteSet, SP!IsFiniteSet,
     storeVars, S!storeVars, SP!storeVars, S!Targets, SP!Targets, S!Idle, SP!Idle

LEMMA SameTypes == S!TypeOK <=> SP!TypeOK
  <1>1. S!Worker = SP!Worker
    BY DEF S!Worker, S!Steps, S!Snapshot, S!Result, S!Verdict, S!AttemptStatus, S!PostStatus,
       S!MaybeMoments, S!Moments,
       SP!Worker, SP!Steps, SP!Snapshot, SP!Result, SP!Verdict, SP!AttemptStatus,
       SP!PostStatus, SP!MaybeMoments, SP!Moments
  <1> QED BY <1>1, SameTables DEF S!TypeOK, SP!TypeOK

LEMMA SameTick == S!Tick => SP!Tick
  BY DEF S!Tick, SP!Tick

LEMMA SameRunDue == \A w : S!RunDue(w) => SP!RunDue(w)
  BY DEF S!RunDue, S!DuePosts, S!IsDue, S!Exists, S!Wake, S!WakesBefore, S!Idle,
     S!SnapshotOf, S!storeVars, S!Cardinality,
     SP!RunDue, SP!DuePosts, SP!IsDue, SP!Exists, SP!Wake, SP!WakesBefore, SP!Idle,
     SP!SnapshotOf, SP!storeVars, SP!Cardinality

LEMMA SameNextDuePost == \A w : S!NextDuePost(w) => SP!NextDuePost(w)
  BY DEF S!NextDuePost, S!Idle, S!storeVars, SP!NextDuePost, SP!Idle, SP!storeVars

LEMMA SameLoadChannels == \A w : S!LoadChannels(w) => SP!LoadChannels(w)
  BY DEF S!LoadChannels, S!storeVars, SP!LoadChannels, SP!storeVars

LEMMA SameGetLatest == \A w : S!GetLatest(w) => SP!GetLatest(w)
  BY DEF S!GetLatest, S!ShouldAttempt, S!AttemptsOf, S!IsLatest, S!SameTarget, S!storeVars,
     SP!GetLatest, SP!ShouldAttempt, SP!AttemptsOf, SP!IsLatest, SP!SameTarget, SP!storeVars

LEMMA SameCheckDailyLimit == \A w : S!CheckDailyLimit(w) => SP!CheckDailyLimit(w)
  BY DEF S!CheckDailyLimit, S!SentToday, S!DayOf, S!DayEnd, S!Cardinality, S!storeVars,
     SP!CheckDailyLimit, SP!SentToday, SP!DayOf, SP!DayEnd, SP!Cardinality, SP!storeVars

LEMMA SamePublish == \A w : S!Publish(w) => SP!Publish(w)
  BY DEF S!Publish, S!Deliver, S!ResultOf, S!ScheduleRetryWithPolicy, S!storeVars,
     SP!Publish, SP!Deliver, SP!ResultOf, SP!ScheduleRetryWithPolicy, SP!storeVars

LEMMA SameInsertAttempt == \A w : S!InsertAttempt(w) => SP!InsertAttempt(w)
  BY DEF S!InsertAttempt, S!InsertPublishAttempt, S!CanInsertAttempt, S!RowOf, S!Exists,
     S!SameTarget, S!NextChannel,
     SP!InsertAttempt, SP!InsertPublishAttempt, SP!CanInsertAttempt, SP!RowOf, SP!Exists,
     SP!SameTarget, SP!NextChannel

LEMMA SameReconcile == \A w : S!Reconcile(w) => SP!Reconcile(w)
  BY DEF S!Reconcile, S!VerdictOf, S!IsLatest, S!SameTarget, S!Cardinality, S!storeVars,
     SP!Reconcile, SP!VerdictOf, SP!IsLatest, SP!SameTarget, SP!Cardinality, SP!storeVars

LEMMA SameStorePostState == \A w : S!StorePostState(w) => SP!StorePostState(w)
  BY DEF S!StorePostState, S!SetPostState, S!Exists, S!Done, S!Idle,
     SP!StorePostState, SP!SetPostState, SP!Exists, SP!Done, SP!Idle

LEMMA SameLegacyPublish == \A w : S!LegacyPublish(w) => SP!LegacyPublish(w)
  BY DEF S!LegacyPublish, S!Deliver, S!ScheduleRetry, S!storeVars,
     SP!LegacyPublish, SP!Deliver, SP!ScheduleRetry, SP!storeVars

LEMMA SameLegacyMarkSent == \A w : S!LegacyMarkSent(w) => SP!LegacyMarkSent(w)
  BY DEF S!LegacyMarkSent, S!MarkSent, S!Exists, S!Done, S!Idle,
     SP!LegacyMarkSent, SP!MarkSent, SP!Exists, SP!Done, SP!Idle

LEMMA SameDeleteAfterSend == \A w : S!DeleteAfterSend(w) => SP!DeleteAfterSend(w)
  BY DEF S!DeleteAfterSend, S!DeletePost, S!Idle,
     SP!DeleteAfterSend, SP!DeletePost, SP!Idle

LEMMA SameFaults ==
    \A w : /\ S!Crash(w) => SP!Crash(w)
           /\ S!StatementFails(w) => SP!StatementFails(w)
  BY DEF S!Crash, S!StatementFails, S!NextChannel, S!Done, S!Idle, S!storeVars,
     SP!Crash, SP!StatementFails, SP!NextChannel, SP!Done, SP!Idle, SP!storeVars

LEMMA SameSend == \A w, p : S!Send(w, p) => SP!Send(w, p)
  BY DEF S!Send, S!SendNowPost, S!SendAndDeletePost, S!BulkSendNowPosts,
     S!APIRetryPostAttempt, S!SendNow, S!SnapshotOf, S!Wake, S!Exists, S!Idle, S!storeVars,
     SP!Send, SP!SendNowPost, SP!SendAndDeletePost, SP!BulkSendNowPosts,
     SP!APIRetryPostAttempt, SP!SendNow, SP!SnapshotOf, SP!Wake, SP!Exists, SP!Idle,
     SP!storeVars

LEMMA SameProcess == \A w : S!Process(w) => SP!Process(w)
  BY SameNextDuePost, SameLoadChannels, SameGetLatest, SameCheckDailyLimit, SamePublish,
     SameInsertAttempt, SameReconcile, SameStorePostState, SameLegacyPublish,
     SameLegacyMarkSent, SameDeleteAfterSend DEF S!Process, SP!Process

LEMMA SameNext ==
    ASSUME Work \/ \E w \in Workers, p \in PostIds : Send(w, p)
    PROVE  SP!Next
  BY SameTick, SameRunDue, SameProcess, SameFaults, SameSend DEF Work, Send, SP!Next

\* The assumptions of SchedulerProofs are among those of Publishing.
LEMMA SameConstants ==
    /\ SP!AllOutcomes = {"ok", "lost", "transient", "rate_limited", "permanent"}
    /\ SP!Policies = Policies /\ SP!Moments = Moments
    /\ SP!PostRow = PostRow /\ SP!ChannelStatus = ChannelStatus
  BY DEF SP!AllOutcomes, SP!Policies, Policies, SP!Moments, Moments,
     SP!PostRow, SP!PostStatus, SP!MaybeMoments, PostRow, PostStatus, MaybeMoments,
     SP!ChannelStatus, ChannelStatus

\* What SchedulerProofs has shown of a step.
LEMMA SchedulerStep ==
    ASSUME SP!TypeInv, SP!LogInv, SP!Next PROVE SP!TypeInv' /\ SP!LogInv'
  <1>1. SP!TypeInv'
    BY SameConstants, SP!NextType, NullAssumption, LegacyBackoffAssumption,
       DayLengthAssumption, IdsAssumption, NoRowAssumption, NoStatusAssumption,
       PublishingAssumption DEF SP!NextType, Moments
  <1> QED BY <1>1, SameConstants, SP!NextLog, NullAssumption, LegacyBackoffAssumption,
          DayLengthAssumption, IdsAssumption, NoRowAssumption, NoStatusAssumption,
          PublishingAssumption DEF SP!NextLog, Moments

-------------------------------------------------------------------------------
(***************************************************************************)
(* The workers.                                                            *)
(***************************************************************************)
\* A worker that goes on with its post, or lets go of it.
LEMMA HandKeeps ==
    ASSUME NEW s, NEW t, HandPlanned(s), t.batch \subseteq s.batch,
           \/ t.pc \in {"idle", "due"}
           \/ t.post = s.post /\ s.pc \notin {"idle", "due"}
    PROVE  HandPlanned(t)
  BY DEF HandPlanned

LEMMA DonePlanned ==
    ASSUME NEW s \in SP!Worker, NEW failed, HandPlanned(s), s.pc \notin {"idle", "due"}
    PROVE  HandPlanned(SP!Done(s, failed))
  <1>1. PICK t : t = SP!Done(s, failed)
    OBVIOUS
  <1>2. CASE s.batch # {}
    <2>1. t = [SP!Idle EXCEPT !.pc = "due", !.batch = s.batch]
      BY <1>1, <1>2 DEF SP!Done
    <2>2. t.pc = "due" /\ t.batch = s.batch
      BY <2>1 DEF SP!Idle
    <2> QED BY <1>1, <2>2, HandKeeps
  <1>3. CASE s.batch = {} /\ s.deleteAfter /\ ~failed
    <2>1. t = [SP!Idle EXCEPT !.pc = "delete", !.post = s.post, !.force = TRUE,
                              !.deleteAfter = TRUE, !.eligible = s.eligible]
      BY <1>1, <1>3 DEF SP!Done
    <2>2. t.batch = {} /\ t.post = s.post
      BY <2>1 DEF SP!Idle
    <2> QED BY <1>1, <2>2, HandKeeps
  <1>4. CASE s.batch = {} /\ ~(s.deleteAfter /\ ~failed)
    <2>1. t = SP!Idle
      BY <1>1, <1>4 DEF SP!Done
    <2>2. t.batch = {} /\ t.pc = "idle"
      BY <2>1 DEF SP!Idle
    <2> QED BY <1>1, <2>2, HandKeeps
  <1> QED BY <1>2, <1>3, <1>4

\* ListDuePosts finds planned posts only: that is what the gate is for.
LEMMA RunDuePlanned ==
    ASSUME PublishingInv, NEW w \in Workers, SP!RunDue(w)
    PROVE  HandPlanned(workers'[w])
  <1>1. PICK due \in SUBSET SP!DuePosts(now) :
           workers' = [workers EXCEPT ![w] =
              [SP!Idle EXCEPT !.pc = "due", !.batch = {SP!SnapshotOf(p) : p \in due}]]
    BY DEF SP!RunDue
  <1>2. PICK batch : batch = {SP!SnapshotOf(p) : p \in due}
    OBVIOUS
  <1>3. PICK t : t = [SP!Idle EXCEPT !.pc = "due", !.batch = batch]
    OBVIOUS
  <1>4. t.pc = "due" /\ t.batch = batch
    BY <1>3 DEF SP!Idle
  <1>5. workers'[w] = t
    BY <1>1, <1>2, <1>3 DEF PublishingInv, SP!TypeInv, SP!TypeOK
  <1>6. ASSUME NEW p \in due PROVE SP!SnapshotOf(p).id \in cleared
    <2>1. p \in PostIds /\ SP!IsDue(p, now) /\ SP!SnapshotOf(p).id = p
      BY DEF SP!DuePosts, SP!SnapshotOf
    <2> QED BY <2>1 DEF SP!IsDue, SP!Exists, Exists, PublishingInv, IInv, GateInv, ApprovalGate
  <1> QED BY <1>2, <1>4, <1>5, <1>6 DEF HandPlanned

LEMMA NextDuePlanned ==
    ASSUME PublishingInv, NEW w \in Workers, SP!NextDuePost(w)
    PROVE  HandPlanned(workers'[w])
  <1>1. PICK s : s = workers[w]
    OBVIOUS
  <1>2. PICK x \in s.batch :
           workers' = [workers EXCEPT ![w] =
              [SP!Idle EXCEPT !.pc = "load", !.post = x, !.batch = s.batch \ {x}]]
    BY <1>1 DEF SP!NextDuePost
  <1>3. PICK t : t = [SP!Idle EXCEPT !.pc = "load", !.post = x, !.batch = s.batch \ {x}]
    OBVIOUS
  <1>4. t.post = x /\ t.batch = s.batch \ {x}
    BY <1>3 DEF SP!Idle
  <1>5. workers'[w] = t
    BY <1>2, <1>3 DEF PublishingInv, SP!TypeInv, SP!TypeOK
  <1>6. HandPlanned(s)
    BY <1>1 DEF PublishingInv, Planned
  <1> QED BY <1>4, <1>5, <1>6 DEF HandPlanned

\* The steps on one post.
InProgress(w) ==
    \/ SP!LoadChannels(w) \/ SP!GetLatest(w) \/ SP!CheckDailyLimit(w) \/ SP!Publish(w)
    \/ SP!InsertAttempt(w) \/ SP!Reconcile(w) \/ SP!LegacyPublish(w)

LEMMA InProgressKeeps ==
    ASSUME NEW w \in Workers, NEW s \in SP!Worker, s = workers[w], InProgress(w),
           NEW t, t = workers'[w], workers \in [Workers -> SP!Worker]
    PROVE  t.batch = s.batch /\ t.post = s.post /\ s.pc \notin {"idle", "due"}
  <1>1. CASE SP!LoadChannels(w)
    <2>1. PICK eligible, v :
             \/ t = [s EXCEPT !.pc = "legacy", !.at = now]
             \/ t = [s EXCEPT !.pc = "store", !.at = now, !.err = TRUE, !.verdict = v]
             \/ t = [s EXCEPT !.pc = "channels", !.at = now,
                              !.eligible = eligible, !.todo = eligible]
      BY <1>1 DEF SP!LoadChannels
    <2> QED BY <1>1, <2>1 DEF SP!Worker, SP!LoadChannels
  <1>2. CASE SP!GetLatest(w)
    <2>1. PICK c \in s.todo :
             \/ workers' = [workers EXCEPT ![w] = [s EXCEPT !.todo = @ \ {c}]]
             \/ \E n : workers' = [workers EXCEPT ![w] =
                     [s EXCEPT !.pc = "limit", !.todo = @ \ {c}, !.channel = c, !.no = n]]
      BY <1>2 DEF SP!GetLatest
    <2>2. PICK n : \/ t = [s EXCEPT !.todo = @ \ {c}]
                   \/ t = [s EXCEPT !.pc = "limit", !.todo = @ \ {c}, !.channel = c, !.no = n]
      BY <2>1
    <2> QED BY <1>2, <2>2 DEF SP!Worker, SP!GetLatest
  <1>3. CASE SP!CheckDailyLimit(w)
    <2>1. PICK r : \/ t = [s EXCEPT !.pc = "insert", !.result = r]
                   \/ t = [s EXCEPT !.pc = "publish"]
      BY <1>3 DEF SP!CheckDailyLimit
    <2> QED BY <1>3, <2>1 DEF SP!Worker, SP!CheckDailyLimit
  <1>4. CASE SP!Publish(w)
    <2>1. PICK r : t = [s EXCEPT !.pc = "insert", !.result = r]
      BY <1>4 DEF SP!Publish
    <2> QED BY <1>4, <2>1 DEF SP!Worker, SP!Publish
  <1>5. CASE SP!InsertAttempt(w)
    <2>1. PICK failed : t = SP!NextChannel(s, failed)
      BY <1>5 DEF SP!InsertAttempt
    <2> QED BY <1>5, <2>1 DEF SP!Worker, SP!InsertAttempt, SP!NextChannel
  <1>6. CASE SP!Reconcile(w)
    <2>1. PICK v : t = [s EXCEPT !.pc = "store", !.verdict = v]
      BY <1>6 DEF SP!Reconcile
    <2> QED BY <1>6, <2>1 DEF SP!Worker, SP!Reconcile
  <1>7. CASE SP!LegacyPublish(w)
    <2>1. PICK v : \/ t = [s EXCEPT !.pc = "mark"]
                   \/ t = [s EXCEPT !.pc = "store", !.err = TRUE, !.verdict = v]
      BY <1>7 DEF SP!LegacyPublish
    <2> QED BY <1>7, <2>1 DEF SP!Worker, SP!LegacyPublish
  <1> QED BY <1>1, <1>2, <1>3, <1>4, <1>5, <1>6, <1>7 DEF InProgress

\* A post is let go of: stored, deleted, given up.
LetsGo(w) ==
    \/ SP!StorePostState(w) \/ SP!LegacyMarkSent(w) \/ SP!DeleteAfterSend(w)
    \/ SP!Crash(w) \/ SP!StatementFails(w)

LEMMA LetsGoPlanned ==
    ASSUME NEW w \in Workers, NEW s \in SP!Worker, s = workers[w], HandPlanned(s),
           workers \in [Workers -> SP!Worker], LetsGo(w)
    PROVE  HandPlanned(workers'[w])
  <1>1. PICK t : t = workers'[w]
    OBVIOUS
  <1>2. \/ t = SP!Idle
        \/ s.pc \notin {"idle", "due"} /\ t = SP!NextChannel(s, TRUE)
        \/ s.pc \notin {"idle", "due"} /\ \E failed : t = SP!Done(s, failed)
    BY <1>1 DEF LetsGo, SP!StorePostState, SP!LegacyMarkSent, SP!DeleteAfterSend, SP!Crash,
       SP!StatementFails
  <1>3. CASE t = SP!Idle
    BY <1>1, <1>3 DEF SP!Idle, HandPlanned
  <1>4. CASE s.pc \notin {"idle", "due"} /\ t = SP!NextChannel(s, TRUE)
    <2>1. t.batch = s.batch /\ t.post = s.post
      BY <1>4 DEF SP!NextChannel, SP!Worker
    <2> QED BY <1>1, <1>4, <2>1, HandKeeps
  <1>5. CASE s.pc \notin {"idle", "due"} /\ \E failed : t = SP!Done(s, failed)
    BY <1>1, <1>5, DonePlanned
  <1> QED BY <1>2, <1>3, <1>4, <1>5

\* What a worker publishes, stores or deletes is a planned post.
LEMMA WorkOnPlanned ==
    ASSUME PublishingInv, NEW w \in Workers,
           \/ SP!RunDue(w) \/ SP!NextDuePost(w) \/ InProgress(w) \/ LetsGo(w)
    PROVE  /\ HandPlanned(workers'[w])
           /\ \A v \in Workers : v # w => workers'[v] = workers[v]
           /\ \A p \in PostIds : posts'[p] = posts[p] \/ posts'[p] = Null \/ p \in cleared
           /\ \A p \in PostIds : Exists(p)' => Exists(p)
           /\ \A p \in PostIds, t \in S!Targets : published'[p][t] > 0 => p \in cleared
  <1>1. PICK s \in SP!Worker : s = workers[w]
    BY DEF PublishingInv, SP!TypeInv, SP!TypeOK
  <1>2. workers \in [Workers -> SP!Worker] /\ HandPlanned(s) /\ SP!InHand(s)
    BY <1>1 DEF PublishingInv, Planned, SP!TypeInv, SP!TypeOK
  <1>3. HandPlanned(workers'[w])
    <2>1. CASE InProgress(w)
      <3>1. PICK t : t = workers'[w]
        OBVIOUS
      <3>2. t.batch = s.batch /\ t.post = s.post /\ s.pc \notin {"idle", "due"}
        BY <1>1, <1>2, <2>1, <3>1, InProgressKeeps
      <3> QED BY <1>2, <3>1, <3>2, HandKeeps
    <2> QED BY <1>1, <1>2, <2>1, RunDuePlanned, NextDuePlanned, LetsGoPlanned
  <1>4. \A v \in Workers : v # w => workers'[v] = workers[v]
    BY <1>2 DEF InProgress, LetsGo, SP!RunDue, SP!NextDuePost, SP!LoadChannels, SP!GetLatest,
       SP!CheckDailyLimit, SP!Publish, SP!InsertAttempt, SP!Reconcile, SP!LegacyPublish,
       SP!StorePostState, SP!LegacyMarkSent, SP!DeleteAfterSend, SP!Crash, SP!StatementFails
  <1>5. s.pc \notin {"idle", "due"} => s.post.id \in PostIds /\ s.post.id \in cleared
    BY <1>2 DEF SP!InHand, SP!Snapshot, HandPlanned
  <1>6. posts \in [PostIds -> PostRow \cup {Null}]
    BY DEF PublishingInv, IInv, TypeOK, StoreTypeOK
  <1>7. /\ \A p \in PostIds : posts'[p] = posts[p] \/ posts'[p] = Null \/ p \in cleared
        /\ \A p \in PostIds : Exists(p)' => Exists(p)
    <2>1. CASE posts' = posts
      BY <2>1 DEF Exists
    <2>2. CASE SP!StorePostState(w) \/ SP!LegacyMarkSent(w)
      <3>1. PICK row : \/ posts' = posts
                       \/ Exists(s.post.id) /\ posts' = [posts EXCEPT ![s.post.id] = row]
        BY <1>1, <2>2 DEF SP!StorePostState, SP!LegacyMarkSent, SP!SetPostState, SP!MarkSent,
           SP!Exists, Exists
      <3>2. s.pc \notin {"idle", "due"}
        BY <1>1, <2>2 DEF SP!StorePostState, SP!LegacyMarkSent
      <3> QED BY <1>5, <1>6, <3>1, <3>2 DEF Exists
    <2>3. CASE SP!DeleteAfterSend(w)
      <3>1. posts' = [posts EXCEPT ![s.post.id] = Null] /\ s.pc = "delete"
        BY <1>1, <2>3 DEF SP!DeleteAfterSend, SP!DeletePost
      <3> QED BY <1>5, <1>6, <3>1 DEF Exists
    <2>4. CASE ~(SP!StorePostState(w) \/ SP!LegacyMarkSent(w) \/ SP!DeleteAfterSend(w))
      <3>1. posts' = posts
        BY <2>4 DEF InProgress, LetsGo, SP!RunDue, SP!NextDuePost, SP!LoadChannels,
           SP!GetLatest, SP!CheckDailyLimit, SP!Publish, SP!InsertAttempt, SP!Reconcile,
           SP!LegacyPublish, SP!Crash, SP!StatementFails, SP!storeVars
      <3> QED BY <2>1, <3>1
    <2> QED BY <2>2, <2>3, <2>4
  <1>8. ASSUME NEW p \in PostIds, NEW t \in S!Targets, published'[p][t] > 0
        PROVE  p \in cleared
    <2>1. CASE published' = published
      BY <1>8, <2>1 DEF PublishingInv, Planned, OnlyClearedIsPublished
    <2>2. CASE SP!Publish(w) \/ SP!LegacyPublish(w)
      <3>1. PICK u : \/ published' = published
                     \/ published' = [published EXCEPT ![s.post.id][u] = @ + 1]
        BY <1>1, <2>2 DEF SP!Publish, SP!LegacyPublish, SP!Deliver
      <3>2. s.post.id \in cleared
        BY <1>1, <1>5, <2>2 DEF SP!Publish, SP!LegacyPublish
      <3>3. published \in [PostIds -> [SP!Targets -> Nat]]
        BY DEF PublishingInv, SP!TypeInv, SP!TypeOK
      <3>4. p # s.post.id => published'[p] = published[p]
        BY <3>1, <3>3
      <3> QED BY <1>8, <3>2, <3>4 DEF PublishingInv, Planned, OnlyClearedIsPublished
    <2>3. CASE ~(SP!Publish(w) \/ SP!LegacyPublish(w))
      <3>1. published' = published
        BY <2>3 DEF InProgress, LetsGo, SP!RunDue, SP!NextDuePost, SP!LoadChannels,
           SP!GetLatest, SP!CheckDailyLimit, SP!InsertAttempt, SP!Reconcile,
           SP!StorePostState, SP!LegacyMarkSent, SP!DeleteAfterSend, SP!Crash,
           SP!StatementFails
      <3> QED BY <2>1, <3>1
    <2> QED BY <2>2, <2>3
  <1> QED BY <1>3, <1>4, <1>7, <1>8
LEMMA WorkStep ==
    ASSUME PublishingInv, Work PROVE PublishingInv'
  <1>1. SP!TypeInv' /\ SP!LogInv'
    BY SameNext, SchedulerStep DEF PublishingInv
  <1>2. UNCHANGED <<requests, acceptBeforePlanning, lastId, cleared, begun>>
    BY DEF Work
  <1>3. \/ SP!Tick
        \/ \E w \in Workers :
              SP!RunDue(w) \/ SP!NextDuePost(w) \/ InProgress(w) \/ LetsGo(w)
    BY SameTick, SameRunDue, SameProcess, SameFaults
       DEF Work, SP!Process, InProgress, LetsGo
  <1>4. /\ \A w \in Workers : HandPlanned(workers'[w])
        /\ \A p \in PostIds : posts'[p] = posts[p] \/ posts'[p] = Null \/ p \in cleared
        /\ \A p \in PostIds : Exists(p)' => Exists(p)
        /\ \A p \in PostIds, t \in S!Targets : published'[p][t] > 0 => p \in cleared
    <2>1. CASE SP!Tick
      BY <2>1 DEF SP!Tick, PublishingInv, Planned, OnlyClearedIsPublished, Exists
    <2>2. CASE \E w \in Workers :
                  SP!RunDue(w) \/ SP!NextDuePost(w) \/ InProgress(w) \/ LetsGo(w)
      <3>1. PICK w \in Workers :
               SP!RunDue(w) \/ SP!NextDuePost(w) \/ InProgress(w) \/ LetsGo(w)
        BY <2>2
      <3> QED BY <3>1, WorkOnPlanned DEF PublishingInv, Planned
    <2> QED BY <1>3, <2>1, <2>2
  <1>5. GateInv'
    BY <1>2, <1>4 DEF PublishingInv, IInv, GateInv, ApprovalGate, ApprovedIsCleared, Exists
  <1>6. StoreTypeOK'
    BY <1>1, SameTables DEF SP!TypeInv, SP!TypeOK
  <1>7. IInv'
    BY <1>2, <1>5, <1>6, NoRequestStep DEF PublishingInv, IInv, TypeOK
  <1>8. Planned'
    BY <1>2, <1>4 DEF Planned, OnlyClearedIsPublished, HandPlanned, S!Targets
  <1>9. IdsUsed'
    BY <1>2, <1>4 DEF PublishingInv, IdsUsed
  <1> QED BY <1>1, <1>7, <1>8, <1>9 DEF PublishingInv

\* A request to send puts the post into the hands of a worker.
LEMMA SendStep ==
    ASSUME PublishingInv, NEW w \in Workers, NEW p \in PostIds, Send(w, p)
    PROVE  PublishingInv'
  <1>1. SP!TypeInv' /\ SP!LogInv'
    BY SameNext, SchedulerStep DEF PublishingInv
  <1>2. cleared' = cleared \cup {p} /\ UNCHANGED <<requests, acceptBeforePlanning, lastId, begun>>
    BY DEF Send
  <1>3. PICK del \in BOOLEAN : SP!SendNow(w, p, del)
    BY SameSend DEF Send, SP!Send, SP!SendNowPost, SP!SendAndDeletePost, SP!BulkSendNowPosts,
       SP!APIRetryPostAttempt
  <1>4. /\ posts' = posts /\ published' = published /\ Exists(p)
        /\ workers' = [workers EXCEPT ![w] = [SP!Idle EXCEPT
                         !.pc = "load", !.post = SP!SnapshotOf(p), !.force = TRUE,
                         !.deleteAfter = del]]
    BY <1>3 DEF SP!SendNow, SP!storeVars, SP!Exists, Exists
  <1>5. PICK x : x = SP!SnapshotOf(p)
    OBVIOUS
  <1>6. PICK t : t = [SP!Idle EXCEPT !.pc = "load", !.post = x, !.force = TRUE,
                                     !.deleteAfter = del]
    OBVIOUS
  <1>7. x.id = p /\ t.batch = {} /\ t.post = x
    BY <1>5, <1>6 DEF SP!Idle, SP!SnapshotOf
  <1>8. workers' = [workers EXCEPT ![w] = t] /\ workers \in [Workers -> SP!Worker]
    BY <1>4, <1>5, <1>6 DEF PublishingInv, SP!TypeInv, SP!TypeOK
  <1>9. GateInv'
    BY <1>2, <1>4 DEF PublishingInv, IInv, GateInv, ApprovalGate, ApprovedIsCleared, Exists
  <1>10. StoreTypeOK'
    BY <1>1, SameTables DEF SP!TypeInv, SP!TypeOK
  <1>11. IInv'
    BY <1>2, <1>9, <1>10, NoRequestStep DEF PublishingInv, IInv, TypeOK
  <1>12. Planned'
    <2>1. ASSUME NEW v \in Workers PROVE HandPlanned(workers[v])'
      <3>1. CASE v = w
        BY <1>2, <1>7, <1>8, <3>1 DEF HandPlanned
      <3>2. CASE v # w
        BY <1>2, <1>8, <3>2 DEF PublishingInv, Planned, HandPlanned
      <3> QED BY <3>1, <3>2
    <2>2. OnlyClearedIsPublished'
      BY <1>2, <1>4 DEF PublishingInv, Planned, OnlyClearedIsPublished, S!Targets
    <2> QED BY <2>1, <2>2 DEF Planned
  <1>13. IdsUsed'
    BY <1>2, <1>4 DEF PublishingInv, IdsUsed, Exists
  <1> QED BY <1>1, <1>11, <1>12, <1>13 DEF PublishingInv

-------------------------------------------------------------------------------
(***************************************************************************)
(* The handlers.                                                           *)
(***************************************************************************)
\* What the workers can rely on while a handler writes: rows disappear list by
\* list, with their post or with their channel, neither of which comes back.
TablesKept ==
    /\ cleared \subseteq cleared'
    /\ attempts' \subseteq attempts
    /\ \A r, q \in attempts : SameTarget(r, q) /\ r \in attempts' => q \in attempts'
    /\ \A r \in attempts : r \in attempts' \/ posts'[r.post] = Null \/ channels'[r.channel] = Null
    /\ \A r \in attempts' : posts'[r.post] # Null
    /\ \A p \in cleared : posts'[p] # Null => posts[p] # Null
    /\ \A c \in ChannelIds : channels'[c] # Null => channels[c] # Null
    /\ IdsUsed'

RowsHavePosts == \A r \in attempts : Exists(r.post)

LEMMA TablesUntouched ==
    ASSUME IdsUsed, RowsHavePosts,
           UNCHANGED <<posts, attempts, channels, cleared, lastId>>
    PROVE  TablesKept
  BY DEF TablesKept, IdsUsed, RowsHavePosts, Exists

\* A row of posts is written over.
LEMMA RowWritten ==
    ASSUME TypeOK, IdsUsed, RowsHavePosts, NEW p \in PostIds, Exists(p),
           NEW row \in PostRow, posts' = [posts EXCEPT ![p] = row],
           cleared \subseteq cleared', cleared' \subseteq cleared \cup {p},
           UNCHANGED <<attempts, channels, lastId>>
    PROVE  TablesKept
  <1>1. \A q \in PostIds : Exists(q)' <=> Exists(q)
    BY NoRowAssumption DEF TypeOK, StoreTypeOK, Exists
  <1>2. IdsUsed'
    BY <1>1 DEF IdsUsed
  <1>3. \A r \in attempts : r.post \in PostIds
    BY DEF TypeOK, StoreTypeOK, AttemptRow
  <1> QED BY <1>1, <1>2, <1>3 DEF TablesKept, RowsHavePosts, Exists, TypeOK

LEMMA InsertKeeps ==
    ASSUME TypeOK, IdsUsed, RowsHavePosts, NEW h \in Handlers, InsertPost(h)
    PROVE  TablesKept
  <1>1. PICK p \in PostIds : /\ p = lastId + 1
                             /\ \E row : posts' = [posts EXCEPT ![p] = row]
    BY DEF InsertPost
  <1>2. /\ lastId' = p /\ cleared \subseteq cleared' /\ cleared' \subseteq cleared \cup {p}
        /\ attempts' = attempts /\ channels' = channels
    BY <1>1 DEF InsertPost
  <1>3. \A q \in PostIds : q # p => posts'[q] = posts[q]
    BY <1>1 DEF TypeOK, StoreTypeOK
  <1>4. ~Exists(p) /\ p \notin cleared /\ lastId \in Nat
    BY <1>1 DEF IdsUsed, TypeOK
  <1>5. \A r \in attempts : r.post \in PostIds /\ r.post # p
    BY <1>4 DEF RowsHavePosts, TypeOK, StoreTypeOK, AttemptRow
  <1>6. IdsUsed'
    <2> SUFFICES ASSUME NEW q \in PostIds, Exists(q)' \/ q \in cleared' PROVE q <= lastId'
      BY DEF IdsUsed
    <2>1. CASE q = p
      BY <1>1, <1>2, <1>4, <2>1
    <2>2. CASE q # p
      <3>1. q <= lastId /\ q \in Nat
        BY <1>2, <1>3, <2>2, IdsAssumption DEF IdsUsed, Exists
      <3> QED BY <1>1, <1>2, <1>4, <3>1
    <2> QED BY <2>1, <2>2
  <1>7. cleared \subseteq PostIds
    BY DEF TypeOK
  <1> QED BY <1>2, <1>3, <1>4, <1>5, <1>6, <1>7 DEF TablesKept, RowsHavePosts, Exists

LEMMA WriteKeeps ==
    ASSUME IInv, IdsUsed, RowsHavePosts, NEW h \in Handlers,
           WritePost(h) \/ WriteAccepted(h)
    PROVE  TablesKept
  <1>1. /\ UNCHANGED <<attempts, channels, lastId>> /\ TypeOK
        /\ requests[h] \in Request
    BY DEF WritePost, WriteAccepted, Continue, IInv, TypeOK
  <1>2. CASE posts' = posts /\ cleared' = cleared
    BY <1>1, <1>2, TablesUntouched
  <1>3. CASE WritePost(h) /\ ~(posts' = posts /\ cleared' = cleared)
    <2>1. PICK p \in requests[h].todo :
             /\ Exists(p)
             /\ posts' = [posts EXCEPT ![p] = Updated(posts[p], requests[h].input)]
             /\ cleared \subseteq cleared' /\ cleared' \subseteq cleared \cup {p}
      BY <1>3 DEF WritePost
    <2>2. p \in PostIds /\ posts[p] \in PostRow /\ requests[h].input \in Input
      BY <1>1, <1>3, <2>1
         DEF Request, TypeOK, StoreTypeOK, Exists, WritePost, IInv, RequestsOK, RequestOK
    <2>3. Updated(posts[p], requests[h].input) \in PostRow
      BY <2>2 DEF PostRow, Input, FlagOr, Updated
    <2> QED BY <1>1, <2>1, <2>2, <2>3, RowWritten
  <1>4. CASE WriteAccepted(h) /\ ~(posts' = posts /\ cleared' = cleared)
    <2>1. PICK p \in requests[h].todo :
             /\ Exists(p)
             /\ posts' = [posts EXCEPT ![p] = [posts[p] EXCEPT
                   !.status = "scheduled", !.approvalPending = FALSE,
                   !.planningApproved = TRUE]]
             /\ cleared' = cleared \cup {p}
      BY <1>4 DEF WriteAccepted
    <2>2. p \in PostIds /\ posts[p] \in PostRow
      BY <1>1, <2>1 DEF Request, TypeOK, StoreTypeOK, Exists
    <2>3. PICK row : row = [posts[p] EXCEPT !.status = "scheduled",
                               !.approvalPending = FALSE, !.planningApproved = TRUE]
      OBVIOUS
    <2>4. row \in PostRow
      BY <2>2, <2>3 DEF PostRow, PostStatus
    <2> QED BY <1>1, <2>1, <2>2, <2>3, <2>4, RowWritten
  <1> QED BY <1>2, <1>3, <1>4

LEMMA DeleteKeeps ==
    ASSUME TypeOK, IdsUsed, RowsHavePosts, NEW p \in PostIds, DeletePost(p),
           UNCHANGED <<channels, cleared, lastId>>
    PROVE  TablesKept
  <1>1. /\ posts' = [posts EXCEPT ![p] = Null]
        /\ attempts' = {r \in attempts : r.post # p}
    BY DEF DeletePost
  <1>2. \A q \in PostIds : posts'[q] = IF q = p THEN Null ELSE posts[q]
    BY <1>1 DEF TypeOK, StoreTypeOK
  <1>3. \A r \in attempts : r.post \in PostIds
    BY DEF TypeOK, StoreTypeOK, AttemptRow
  <1>4. IdsUsed'
    BY <1>2 DEF IdsUsed, Exists
  <1> QED BY <1>1, <1>2, <1>3, <1>4 DEF TablesKept, RowsHavePosts, Exists, SameTarget, TypeOK

LEMMA DeleteChannelKeeps ==
    ASSUME TypeOK, IdsUsed, RowsHavePosts, NEW c \in ChannelIds, DeleteChannel(c)
    PROVE  TablesKept
  <1>1. /\ channels' = [channels EXCEPT ![c] = Null]
        /\ attempts' = {r \in attempts : r.channel # c}
        /\ UNCHANGED <<posts, cleared, lastId>>
    BY DEF DeleteChannel
  <1>2. \A d \in ChannelIds : channels'[d] = IF d = c THEN Null ELSE channels[d]
    BY <1>1 DEF TypeOK, StoreTypeOK
  <1>3. \A r \in attempts : r.channel \in ChannelIds
    BY DEF TypeOK, StoreTypeOK, AttemptRow
  <1>4. IdsUsed'
    BY <1>1 DEF IdsUsed, Exists
  <1> QED BY <1>1, <1>2, <1>3, <1>4 DEF TablesKept, RowsHavePosts, Exists, SameTarget

LEMMA BeginKeeps ==
    ASSUME NEW h, NEW request, Begin(h, request)
    PROVE  UNCHANGED <<posts, postChannels, attempts, channels, cleared, lastId>>
  BY DEF Begin, storeVars

LEMMA ArriveKeeps ==
    ASSUME NEW h \in Handlers, Arrive(h)
    PROVE  UNCHANGED <<posts, postChannels, attempts, channels, cleared, lastId>>
  <1>1. ASSUME NEW at, NEW chans, NEW status, CreatePost(h, status, at, chans)
        PROVE  UNCHANGED <<posts, postChannels, attempts, channels, cleared, lastId>>
    BY <1>1, BeginKeeps DEF CreatePost
  <1>2. ASSUME NEW at, NEW chans, NEW status, NEW auth,
               APICreatePost(h, auth, status, at, chans)
        PROVE  UNCHANGED <<posts, postChannels, attempts, channels, cleared, lastId>>
    BY <1>2, BeginKeeps DEF APICreatePost
  <1>3. ASSUME NEW p, NEW at, NEW chans, NEW status, UpdatePost(h, p, status, at, chans)
        PROVE  UNCHANGED <<posts, postChannels, attempts, channels, cleared, lastId>>
    BY <1>3, BeginKeeps DEF UpdatePost
  <1>4. ASSUME NEW p, NEW at, NEW chans, NEW status, NEW auth,
               APIUpdatePost(h, auth, p, status, at, chans)
        PROVE  UNCHANGED <<posts, postChannels, attempts, channels, cleared, lastId>>
    BY <1>4, BeginKeeps DEF APIUpdatePost
  <1>5. ASSUME NEW p, NEW at, ReschedulePost(h, p, at)
        PROVE  UNCHANGED <<posts, postChannels, attempts, channels, cleared, lastId>>
    BY <1>5, BeginKeeps DEF ReschedulePost
  <1>6. ASSUME NEW p, NEW at, NEW auth, APIReschedulePost(h, auth, p, at)
        PROVE  UNCHANGED <<posts, postChannels, attempts, channels, cleared, lastId>>
    BY <1>6, BeginKeeps DEF APIReschedulePost
  <1>7. ASSUME NEW p, AcceptPostPlanning(h, p)
        PROVE  UNCHANGED <<posts, postChannels, attempts, channels, cleared, lastId>>
    BY <1>7, BeginKeeps DEF AcceptPostPlanning
  <1>8. ASSUME NEW ps, NEW chans,
               BulkSetPostChannels(h, ps, chans) \/ APIBulkSetPostChannels(h, ps, chans)
        PROVE  UNCHANGED <<posts, postChannels, attempts, channels, cleared, lastId>>
    BY <1>8, BeginKeeps DEF BulkSetPostChannels, APIBulkSetPostChannels
  <1> QED BY <1>1, <1>2, <1>3, <1>4, <1>5, <1>6, <1>7, <1>8 DEF Arrive

LEMMA HandlerKeeps ==
    ASSUME IInv, IdsUsed, RowsHavePosts, HandlerNext PROVE TablesKept
  <1>1. TypeOK
    BY DEF IInv
  <1>2. ASSUME NEW h \in Handlers, Arrive(h) \/ Abort(h) \/ ReplacePostChannels(h)
        PROVE  TablesKept
    <2>1. UNCHANGED <<posts, attempts, channels, cleared, lastId>>
      BY <1>2, ArriveKeeps DEF Abort, ReplacePostChannels, Continue, storeVars
    <2> QED BY <2>1, TablesUntouched
  <1>3. ASSUME NEW h \in Handlers, UndoCreate(h) PROVE TablesKept
    <2>1. PICK p \in requests[h].todo : DeletePost(p)
      BY <1>3 DEF UndoCreate
    <2>2. p \in PostIds /\ UNCHANGED <<channels, cleared, lastId>>
      BY <1>1, <1>3 DEF TypeOK, Request, UndoCreate, Continue
    <2> QED BY <1>1, <2>1, <2>2, DeleteKeeps
  <1>4. ASSUME NEW h \in Handlers, Handle(h) PROVE TablesKept
    BY <1>1, <1>2, <1>3, <1>4, InsertKeeps, WriteKeeps DEF Handle
  <1>5. ASSUME NEW p \in PostIds, RemovePost(p) PROVE TablesKept
    BY <1>1, <1>5, DeleteKeeps DEF RemovePost
  <1>6. ASSUME NEW enabled \in BOOLEAN, UpdateApprovalPolicy(enabled) PROVE TablesKept
    BY <1>6, TablesUntouched DEF UpdateApprovalPolicy, storeVars
  <1> QED BY <1>1, <1>2, <1>4, <1>5, <1>6, DeleteChannelKeeps DEF HandlerNext

\* What a worker has read of the log lasts as long as the list it belongs to.
LEMMA LogKept ==
    ASSUME PublishingInv, TablesKept, workers' = workers PROVE SP!LogInv'
  <1>1. /\ SP!AttemptNumbersGapless /\ SP!SentIsLast
        /\ \A w \in Workers : SP!AttemptInHand(workers[w])
    BY DEF PublishingInv, SP!LogInv
  <1>2. \A r, q : SP!SameTarget(r, q) <=> SameTarget(r, q)
    BY DEF SameTarget, SP!SameTarget
  <1>3. SP!SentIsLast'
    BY <1>1, <1>2 DEF SP!SentIsLast, TablesKept, SP!SameTarget
  <1>4. SP!AttemptNumbersGapless'
    <2>1. \A r, q \in attempts' : SameTarget(r, q) /\ r.no = q.no => r = q
      BY <1>1, <1>2 DEF SP!AttemptNumbersGapless, TablesKept
    <2>2. ASSUME NEW r \in attempts', NEW m \in 1 .. r.no
          PROVE  \E q \in attempts' : SameTarget(r, q) /\ q.no = m
      <3>1. r \in attempts
        BY DEF TablesKept
      <3>2. PICK q \in attempts : SameTarget(r, q) /\ q.no = m
        BY <1>1, <1>2, <3>1 DEF SP!AttemptNumbersGapless
      <3> QED BY <3>1, <3>2 DEF TablesKept
    <2> QED BY <2>1, <2>2 DEF SP!AttemptNumbersGapless, SP!SameTarget, SameTarget
  <1>5. \A r \in attempts' : SP!Exists(r.post)'
    BY DEF TablesKept, SP!Exists
  <1>6. ASSUME NEW w \in Workers PROVE SP!AttemptInHand(workers[w])'
    <2>1. PICK s : s = workers[w]
      OBVIOUS
    <2>2. SP!InHand(s) /\ SP!AttemptInHand(s) /\ HandPlanned(s)
      BY <1>1, <2>1 DEF PublishingInv, SP!TypeInv, Planned
    <2> SUFFICES ASSUME s.pc \in {"limit", "publish", "insert"},
                        posts'[s.post.id] # Null, channels'[s.channel] # Null
                 PROVE  \/ s.no = 1
                        \/ \E r \in attempts' : /\ r.post = s.post.id
                                                /\ r.channel = s.channel
                                                /\ r.no = s.no - 1
                                                /\ r.status # "sent"
      BY <2>1 DEF SP!AttemptInHand, SP!Exists
    <2>3. s.channel \in ChannelIds /\ s.post.id \in cleared
      BY <2>2 DEF SP!InHand, HandPlanned
    <2>4. posts[s.post.id] # Null /\ channels[s.channel] # Null
      BY <2>3 DEF TablesKept
    <2>5. \/ s.no = 1
          \/ \E r \in attempts : /\ r.post = s.post.id
                                 /\ r.channel = s.channel
                                 /\ r.no = s.no - 1
                                 /\ r.status # "sent"
      BY <2>2, <2>4 DEF SP!AttemptInHand, SP!Exists
    <2> QED BY <2>5 DEF TablesKept
  <1> QED BY <1>3, <1>4, <1>5, <1>6 DEF SP!LogInv

LEMMA PlanStep ==
    ASSUME PublishingInv, Plan PROVE PublishingInv'
  <1>1. HandlerNext /\ UNCHANGED <<workers, published, sends, faults>>
    BY DEF Plan, schedulerVars
  <1>2. RowsHavePosts
    BY DEF PublishingInv, SP!LogInv, RowsHavePosts, SP!Exists, Exists
  <1>3. IInv' /\ TablesKept
    BY <1>1, <1>2, HandlerStep, HandlerKeeps DEF PublishingInv
  <1>4. SP!TypeInv'
    <2>1. SP!StoreTypeOK'
      BY <1>3, SameTables DEF IInv, TypeOK
    <2> QED BY <1>1, <2>1 DEF PublishingInv, SP!TypeInv, SP!TypeOK
  <1>5. SP!LogInv'
    BY <1>1, <1>3, LogKept
  <1>6. Planned'
    BY <1>1, <1>3 DEF PublishingInv, Planned, OnlyClearedIsPublished, HandPlanned,
       TablesKept, S!Targets
  <1> QED BY <1>3, <1>4, <1>5, <1>6 DEF PublishingInv, TablesKept

-------------------------------------------------------------------------------
(***************************************************************************)
(* The theorems.                                                           *)
(***************************************************************************)
LEMMA PublishingStart == PublishingInit => PublishingInv
  <1> SUFFICES ASSUME PublishingInit PROVE PublishingInv
    OBVIOUS
  <1>1. IInv
    BY InitOK DEF PublishingInit
  <1>2. \A w \in Workers : workers[w] = SP!Idle
    BY SameTables DEF PublishingInit
  <1>3. SP!TypeInv
    <2>1. SP!Idle \in SP!Worker /\ SP!InHand(SP!Idle)
      BY DEF SP!Idle, SP!Worker, SP!Steps, SP!InHand, SP!Moments
    <2>2. SP!StoreTypeOK
      BY <1>1, SameTables DEF IInv, TypeOK
    <2>3. workers = [w \in Workers |-> SP!Idle]
      BY SameTables DEF PublishingInit
    <2>4. published \in [PostIds -> [SP!Targets -> Nat]] /\ sends \in Nat /\ faults \in Nat
      BY SameTables DEF PublishingInit
    <2> QED BY <1>2, <2>1, <2>2, <2>3, <2>4 DEF SP!TypeInv, SP!TypeOK
  <1>4. attempts = {} /\ SP!Idle.pc = "idle" /\ SP!Idle.batch = {}
    BY DEF PublishingInit, Init, SP!Idle
  <1>5. SP!LogInv
    BY <1>2, <1>4 DEF SP!LogInv, SP!AttemptNumbersGapless, SP!SentIsLast, SP!AttemptInHand
  <1>6. Planned
    <2>1. \A p \in PostIds, t \in S!Targets : ~(published[p][t] > 0)
      BY DEF PublishingInit
    <2> QED BY <1>2, <1>4, <2>1 DEF Planned, OnlyClearedIsPublished, HandPlanned
  <1>7. IdsUsed
    BY DEF PublishingInit, Init, IdsUsed
  <1> QED BY <1>1, <1>3, <1>5, <1>6, <1>7 DEF PublishingInv

LEMMA PublishingStep ==
    ASSUME PublishingInv, [PublishingNext]_publishingVars PROVE PublishingInv'
  <1>1. CASE UNCHANGED publishingVars
    <2>1. UNCHANGED <<now, posts, postChannels, channels, attempts, requests,
                      acceptBeforePlanning, lastId, cleared, begun, workers, published,
                      sends, faults>>
      BY <1>1 DEF publishingVars, vars, storeVars, schedulerVars
    <2>2. RowsHavePosts
      BY DEF PublishingInv, SP!LogInv, RowsHavePosts, SP!Exists, Exists
    <2>3. TablesKept
      BY <2>1, <2>2, TablesUntouched DEF PublishingInv
    <2>4. IInv'
      BY <2>1, NextStep DEF PublishingInv, vars, storeVars
    <2>5. SP!TypeInv'
      <3>1. SP!StoreTypeOK'
        BY <2>4, SameTables DEF IInv, TypeOK
      <3> QED BY <2>1, <3>1 DEF PublishingInv, SP!TypeInv, SP!TypeOK
    <2>6. Planned'
      BY <2>1 DEF PublishingInv, Planned, OnlyClearedIsPublished, HandPlanned, S!Targets
    <2> QED BY <2>1, <2>3, <2>4, <2>5, <2>6, LogKept DEF PublishingInv, TablesKept
  <1> QED BY <1>1, WorkStep, SendStep, PlanStep DEF PublishingNext

\* What each side relies on survives every step of the other.
THEOREM PublishingCorrect == PublishingSpec => []PublishingInv
  BY PublishingStart, PublishingStep, PTL DEF PublishingSpec

\* The tables, the requests and the workers keep their types.
THEOREM PublishingTypeCorrect == PublishingSpec => []PublishingTypeOK
  <1>1. PublishingInv => PublishingTypeOK
    BY SameTypes DEF PublishingInv, IInv, SP!TypeInv, PublishingTypeOK
  <1> QED BY <1>1, PublishingCorrect, PTL

\* Nothing is published that only agents have scheduled whom the policy holds
\* back, for any number of posts, people, agents and workers, whatever happens to
\* a post that waits in a batch.
THEOREM OnlyClearedCorrect == PublishingSpec => []OnlyClearedIsPublished
  <1>1. PublishingInv => OnlyClearedIsPublished
    BY DEF PublishingInv, Planned
  <1> QED BY <1>1, PublishingCorrect, PTL

\* The log keeps its numbering and ends with the sent attempt while posts and
\* channels are deleted under the workers that write it.
THEOREM LogIntactCorrect == PublishingSpec => []LogIntact
  <1>1. PublishingInv => LogIntact
    BY DEF PublishingInv, SP!LogInv, LogIntact, S!AttemptNumbersGapless, S!SentIsLast,
       S!SameTarget, SP!AttemptNumbersGapless, SP!SentIsLast, SP!SameTarget
  <1> QED BY <1>1, PublishingCorrect, PTL

-------------------------------------------------------------------------------
(***************************************************************************)
(* How often a channel gets a post, which the handlers keep changing.      *)
(***************************************************************************)
\* What SchedulerProofs has shown of the workers.
LEMMA SchedulerShares ==
    ASSUME SP!TypeInv, SP!TypeInv', SP!LogInv, SP!SharedInv, SP!NothingLost, [SP!Next]_SP!vars
    PROVE  SP!SharedInv'
  BY SameConstants, SP!NextShared, NullAssumption, LegacyBackoffAssumption,
     DayLengthAssumption, IdsAssumption, NoRowAssumption, NoStatusAssumption,
     PublishingAssumption DEF SP!NextShared, Moments

\* A handler takes no channel's list from a post that stays, and a post that it
\* creates has not been published and is in nobody's hands.
LEMMA PlanShares ==
    ASSUME PublishingInv, SP!SharedInv, TablesKept,
           UNCHANGED <<workers, published, sends, faults>>
    PROVE  SP!SharedInv'
  <1>1. \A w \in Workers : SP!Shape(w)' = SP!Shape(w)
    BY DEF SP!Shape
  <1>2. \A p, c : SP!Requests(p, c)' = SP!Requests(p, c)
    BY DEF SP!Requests
  <1>3. ASSUME NEW p \in PostIds, NEW c \in ChannelIds, posts'[p] # Null, channels'[c] # Null
        PROVE  SP!Bound(p, c)'
    <2>1. channels[c] # Null
      BY <1>3 DEF TablesKept
    <2>2. CASE p \in cleared
      <3>1. SP!Exists(p)
        BY <1>3, <2>2 DEF TablesKept, SP!Exists
      <3>2. SP!AttemptsOf(p, c)' = SP!AttemptsOf(p, c)
        BY <1>3 DEF SP!AttemptsOf, TablesKept
      <3>3. SP!Bound(p, c)
        BY <2>1, <3>1 DEF SP!SharedInv
      <3> QED BY <1>2, <3>2, <3>3 DEF SP!Bound, SP!Claim, SP!Taken, SP!HasSentRow
    <2>3. CASE p \notin cleared
      <3>1. published[p][c] = 0 /\ sends \in Nat /\ faults \in Nat
        BY <2>3 DEF PublishingInv, Planned, OnlyClearedIsPublished, S!Targets,
           SP!TypeInv, SP!TypeOK, SP!Targets
      <3>2. \A w \in Workers : workers[w].pc \notin {"idle", "due"} => workers[w].post.id # p
        BY <2>3 DEF PublishingInv, Planned, HandPlanned
      <3>3. SP!Requests(p, c) = {}
        BY <3>2 DEF SP!Requests, SP!MayPublish, SP!Attempting
      <3>4. SP!Claim(workers[SchedulerProcess], p, c)' \in {0, 1}
        BY <3>2, PublishingAssumption DEF SP!Claim
      <3>5. SP!Cardinality({}) = 0
        BY FS_EmptySet DEF Cardinality, SP!Cardinality
      <3> QED BY <1>2, <3>1, <3>3, <3>4, <3>5 DEF SP!Bound
    <2> QED BY <2>2, <2>3
  <1> QED BY <1>1, <1>2, <1>3 DEF SP!SharedInv, SP!Exists

LEMMA PublishingShares ==
    ASSUME PublishingInv, PublishingInv', SP!SharedInv, SP!NothingLost,
           [PublishingNext]_publishingVars
    PROVE  SP!SharedInv'
  <1>1. SP!TypeInv /\ SP!TypeInv' /\ SP!LogInv
    BY DEF PublishingInv
  <1>2. CASE Plan
    <2>1. HandlerNext /\ UNCHANGED <<workers, published, sends, faults>>
      BY <1>2 DEF Plan, schedulerVars
    <2>2. RowsHavePosts
      BY DEF PublishingInv, SP!LogInv, RowsHavePosts, SP!Exists, Exists
    <2>3. TablesKept
      BY <2>1, <2>2, HandlerKeeps DEF PublishingInv
    <2> QED BY <2>1, <2>3, PlanShares
  <1>3. CASE UNCHANGED publishingVars
    <2>1. UNCHANGED SP!vars
      BY <1>3 DEF publishingVars, vars, storeVars, schedulerVars, SP!vars, SP!storeVars
    <2> QED BY <1>1, <2>1, SchedulerShares
  <1>4. CASE Work \/ \E w \in Workers, p \in PostIds : Send(w, p)
    BY <1>1, <1>4, SameNext, SchedulerShares
  <1> QED BY <1>2, <1>3, <1>4 DEF PublishingNext

\* However often people edit, reschedule and reassign a post while workers race
\* for it, a channel gets it once, plus at most once more for each request to
\* send it and each fault, as long as no answer is lost.
THEOREM ChannelOnceCorrect ==
    SP!NothingLost /\ PublishingSpec => []ChannelGetsPostOnce
  <1>1. PublishingInit => SP!SharedInv
    <2> SUFFICES ASSUME PublishingInit PROVE SP!SharedInv
      OBVIOUS
    <2>1. \A w \in Workers : workers[w].pc = "idle" /\ workers[w].batch = {}
      BY DEF PublishingInit, S!Idle
    <2>2. \A w \in Workers : SP!Shape(w)
      BY <2>1 DEF SP!Shape, SP!Attempting
    <2>3. ASSUME NEW p \in PostIds, NEW c \in ChannelIds
          PROVE  SP!IsFiniteSet(SP!Requests(p, c)) /\ SP!Bound(p, c)
      <3>1. published[p][c] = 0 /\ sends = 0 /\ faults = 0
        BY DEF PublishingInit, S!Targets
      <3>2. SP!Requests(p, c) = {} /\ SP!Bound(p, c)
        BY <2>1, <3>1, SameConstants, SP!FreshBound, NullAssumption, LegacyBackoffAssumption,
           DayLengthAssumption, IdsAssumption, NoRowAssumption, NoStatusAssumption,
           PublishingAssumption DEF SP!FreshBound, SP!Attempting, Moments
      <3>3. SP!IsFiniteSet({})
        BY FS_EmptySet DEF IsFiniteSet, SP!IsFiniteSet
      <3> QED BY <3>2, <3>3
    <2> QED BY <2>2, <2>3 DEF SP!SharedInv
  <1>2. /\ SP!NothingLost /\ PublishingInv /\ PublishingInv' /\ SP!SharedInv
        /\ [PublishingNext]_publishingVars
        => SP!NothingLost' /\ SP!SharedInv'
    BY PublishingShares DEF SP!NothingLost
  <1>3. PublishingInv /\ SP!SharedInv => ChannelGetsPostOnce
    <2> SUFFICES ASSUME PublishingInv, SP!SharedInv, NEW p \in PostIds, NEW c \in ChannelIds,
                        Exists(p), channels[c] # Null
                 PROVE  published[p][c] <= 1 + faults + sends
      BY DEF ChannelGetsPostOnce
    <2>1. SP!TypeInv /\ SP!Exists(p)
      BY DEF PublishingInv, SP!Exists, Exists
    <2> QED BY <2>1, SameConstants, SP!SharedBounds, NullAssumption, LegacyBackoffAssumption,
            DayLengthAssumption, IdsAssumption, NoRowAssumption, NoStatusAssumption,
            PublishingAssumption DEF SP!SharedBounds, Moments
  <1> QED BY <1>1, <1>2, <1>3, PublishingCorrect, PTL DEF PublishingSpec

-------------------------------------------------------------------------------
(***************************************************************************)
(* Publishing implements Planning.                                         *)
(***************************************************************************)
\* The foreign key of post_channels.
Assigned == \A p \in PostIds : postChannels[p] # {} => Exists(p)

PostsSeen == [p \in PostIds |-> PlanningRow(p)]

\* Planning sees a post with its own columns.
LEMMA RowSeen ==
    ASSUME StoreTypeOK, NEW p \in PostIds
    PROVE  /\ P!Exists(p) <=> Exists(p)
           /\ Exists(p) => /\ PostsSeen[p].status = posts[p].status
                           /\ PostsSeen[p].approvalPending = posts[p].approvalPending
                           /\ PostsSeen[p].planningApproved = posts[p].planningApproved
                           /\ PostsSeen[p].scheduledAt = posts[p].scheduledAt
                           /\ PostsSeen[p].failCount = 0
                           /\ PostsSeen[p].nextRetryAt = Null
  <1>1. PostsSeen[p] = PlanningRow(p)
    BY DEF PostsSeen
  <1>2. CASE Exists(p)
    <2>1. posts[p] \in PostRow
      BY <1>2 DEF StoreTypeOK, Exists
    <2>2. PICK row : row = [posts[p] EXCEPT !.nextRetryAt = Null, !.failCount = 0]
      OBVIOUS
    <2>3. /\ row.status = posts[p].status
          /\ row.approvalPending = posts[p].approvalPending
          /\ row.planningApproved = posts[p].planningApproved
          /\ row.scheduledAt = posts[p].scheduledAt
          /\ row.failCount = 0 /\ row.nextRetryAt = Null
      BY <2>1, <2>2 DEF PostRow
    <2>4. row \in PostRow
      BY <2>1, <2>2 DEF PostRow, MaybeMoments
    <2>5. PostsSeen[p] = row /\ row # Null
      BY <1>1, <1>2, <2>2, <2>4, NoRowAssumption DEF PlanningRow
    <2> QED BY <1>2, <2>3, <2>5 DEF P!Exists, PostsSeen
  <1>3. CASE ~Exists(p)
    BY <1>1, <1>3 DEF PlanningRow, P!Exists
  <1> QED BY <1>2, <1>3

LEMMA SameOperators ==
    /\ P!NoRequest = NoRequest
    /\ \A status, at : P!Plain(status, at) = Plain(status, at)
    /\ \A input, auth, known, approved :
          P!Marked(input, auth, known, approved) = Marked(input, auth, known, approved)
    /\ \A status, auth : P!Clears(status, auth) <=> Clears(status, auth)
    /\ \A flag, old : P!FlagOr(flag, old) = FlagOr(flag, old)
    /\ \A status, at, chans : P!IsParsed(status, at, chans) <=> IsParsed(status, at, chans)
    /\ P!PostStatus = PostStatus
  BY DEF P!NoRequest, NoRequest, P!Plain, Plain, P!Marked, Marked, P!Clears, Clears,
     P!FlagOr, FlagOr, P!IsParsed, IsParsed, P!PostStatus, PostStatus

\* A handler that has only begun.
LEMMA BeginSeen == \A h, request : Begin(h, request) => P!Begin(h, request)
  BY DEF Begin, P!Begin, storeVars, P!storeVars, PlanningRow, Exists

LEMMA ContinueSeen == \A h, request : Continue(h, request) => P!Continue(h, request)
  BY DEF Continue, P!Continue

\* The requests of people.
LEMMA UIRequestSeen ==
    ASSUME StoreTypeOK, NEW h \in Handlers, NEW at, NEW chans, NEW status
    PROVE  /\ CreatePost(h, status, at, chans) => P!CreatePost(h, status, at, chans)
           /\ \A p \in PostIds :
                 /\ UpdatePost(h, p, status, at, chans) => P!UpdatePost(h, p, status, at, chans)
                 /\ ReschedulePost(h, p, at) => P!ReschedulePost(h, p, at)
                 /\ AcceptPostPlanning(h, p) => P!AcceptPostPlanning(h, p)
  <1>1. CreatePost(h, status, at, chans) => P!CreatePost(h, status, at, chans)
    BY SameOperators, BeginSeen DEF CreatePost, P!CreatePost
  <1>2. ASSUME NEW p \in PostIds
        PROVE  /\ UpdatePost(h, p, status, at, chans) => P!UpdatePost(h, p, status, at, chans)
               /\ ReschedulePost(h, p, at) => P!ReschedulePost(h, p, at)
               /\ AcceptPostPlanning(h, p) => P!AcceptPostPlanning(h, p)
    BY SameOperators, BeginSeen, RowSeen DEF UpdatePost, P!UpdatePost, ReschedulePost,
       P!ReschedulePost, AcceptPostPlanning, P!AcceptPostPlanning, PostsSeen
  <1> QED BY <1>1, <1>2

\* The requests to the JSON API, and the bulk ones.
LEMMA APICreateSeen ==
    ASSUME NEW h, NEW auth, NEW at, NEW chans, NEW status,
           APICreatePost(h, auth, status, at, chans)
    PROVE  P!APICreatePost(h, auth, status, at, chans)
  <1>1. PICK clears : clears = Clears(status, auth)
    OBVIOUS
  <1>2. PICK input : input = Marked(Plain(status, at), auth, FALSE, FALSE)
    OBVIOUS
  <1>3. clears = P!Clears(status, auth)
    BY <1>1 DEF Clears, P!Clears
  <1>4. input = P!Marked(P!Plain(status, at), auth, FALSE, FALSE)
    BY <1>2, SameOperators
  <1>5. IsParsed(status, at, chans)
        /\ Begin(h, [NoRequest EXCEPT !.pc = "insert", !.kind = "create", !.channels = chans,
                                      !.clears = clears, !.input = input])
    BY <1>1, <1>2 DEF APICreatePost
  <1>6. P!IsParsed(status, at, chans)
        /\ P!Begin(h, [P!NoRequest EXCEPT !.pc = "insert", !.kind = "create",
                          !.channels = chans, !.clears = clears, !.input = input])
    BY <1>5, SameOperators, BeginSeen
  <1> QED BY <1>3, <1>4, <1>6 DEF P!APICreatePost

LEMMA APIUpdateSeen ==
    ASSUME StoreTypeOK, NEW h, NEW p \in PostIds, NEW auth, NEW at, NEW chans, NEW status,
           APIUpdatePost(h, auth, p, status, at, chans)
    PROVE  P!APIUpdatePost(h, auth, p, status, at, chans)
  <1>1. PICK clears : clears = Clears(status, auth)
    OBVIOUS
  <1>2. PICK input :
           input = Marked(Plain(status, at), auth, TRUE, posts[p].planningApproved)
    OBVIOUS
  <1>3. clears = P!Clears(status, auth)
    BY <1>1 DEF Clears, P!Clears
  <1>4. /\ IsParsed(status, at, chans)
        /\ Exists(p)
        /\ Begin(h, [NoRequest EXCEPT !.pc = "update", !.kind = "update", !.todo = {p},
                        !.channels = chans, !.clears = clears, !.input = input])
    BY <1>1, <1>2 DEF APIUpdatePost
  <1>5. input = P!Marked(P!Plain(status, at), auth, TRUE, PostsSeen[p].planningApproved)
    BY <1>2, <1>4, RowSeen, SameOperators
  <1>6. /\ P!IsParsed(status, at, chans)
        /\ P!Exists(p)
        /\ P!Begin(h, [P!NoRequest EXCEPT !.pc = "update", !.kind = "update", !.todo = {p},
                          !.channels = chans, !.clears = clears, !.input = input])
    BY <1>4, RowSeen, SameOperators, BeginSeen
  <1> QED BY <1>3, <1>5, <1>6 DEF P!APIUpdatePost, PostsSeen

LEMMA APIRescheduleSeen ==
    ASSUME StoreTypeOK, NEW h, NEW p \in PostIds, NEW auth, NEW at,
           APIReschedulePost(h, auth, p, at)
    PROVE  P!APIReschedulePost(h, auth, p, at)
  <1>1. PICK clears : clears = Clears("scheduled", auth)
    OBVIOUS
  <1>2. PICK input :
           input = Marked(Plain("scheduled", at), auth, TRUE, posts[p].planningApproved)
    OBVIOUS
  <1>3. clears = P!Clears("scheduled", auth)
    BY <1>1 DEF Clears, P!Clears
  <1>4. /\ at # Null
        /\ Exists(p)
        /\ posts[p].status # "sent"
        /\ Begin(h, [NoRequest EXCEPT !.pc = "update", !.kind = "reschedule", !.todo = {p},
                        !.clears = clears, !.input = input])
    BY <1>1, <1>2 DEF APIReschedulePost
  <1>5. input = P!Marked(P!Plain("scheduled", at), auth, TRUE, PostsSeen[p].planningApproved)
    BY <1>2, <1>4, RowSeen, SameOperators
  <1>6. /\ P!Exists(p)
        /\ PostsSeen[p].status # "sent"
        /\ P!Begin(h, [P!NoRequest EXCEPT !.pc = "update", !.kind = "reschedule",
                          !.todo = {p}, !.clears = clears, !.input = input])
    BY <1>4, RowSeen, SameOperators, BeginSeen
  <1> QED BY <1>3, <1>4, <1>5, <1>6 DEF P!APIReschedulePost, PostsSeen

LEMMA BulkSeen ==
    ASSUME StoreTypeOK, NEW h, NEW ps \in SUBSET PostIds, NEW chans,
           BulkSetPostChannels(h, ps, chans)
    PROVE  P!BulkSetPostChannels(h, ps, chans)
  BY RowSeen, SameOperators, BeginSeen DEF BulkSetPostChannels, P!BulkSetPostChannels, PostsSeen

LEMMA ArriveSeen ==
    ASSUME StoreTypeOK, NEW h \in Handlers, Arrive(h)
    PROVE  P!Arrive(h)
  <1>1. CASE \E at \in Times, chans \in SUBSET ChannelIds, status \in {"draft", "scheduled"} :
                \/ CreatePost(h, status, at, chans)
                \/ \E p \in PostIds : UpdatePost(h, p, status, at, chans)
                \/ \E auth \in Auth :
                      \/ APICreatePost(h, auth, status, at, chans)
                      \/ \E p \in PostIds : APIUpdatePost(h, auth, p, status, at, chans)
    <2>1. PICK at \in Times, chans \in SUBSET ChannelIds, status \in {"draft", "scheduled"} :
                \/ P!CreatePost(h, status, at, chans)
                \/ \E p \in PostIds : P!UpdatePost(h, p, status, at, chans)
                \/ \E auth \in Auth :
                      \/ P!APICreatePost(h, auth, status, at, chans)
                      \/ \E p \in PostIds : P!APIUpdatePost(h, auth, p, status, at, chans)
      BY <1>1, UIRequestSeen, APICreateSeen, APIUpdateSeen
    <2> QED BY <2>1 DEF P!Arrive, P!Auth, Auth
  <1>2. CASE \E p \in PostIds, at \in Times :
                \/ ReschedulePost(h, p, at)
                \/ \E auth \in Auth : APIReschedulePost(h, auth, p, at)
    <2>1. PICK p \in PostIds, at \in Times :
                \/ P!ReschedulePost(h, p, at)
                \/ \E auth \in Auth : P!APIReschedulePost(h, auth, p, at)
      BY <1>2, UIRequestSeen, APIRescheduleSeen
    <2> QED BY <2>1 DEF P!Arrive, P!Auth, Auth
  <1>3. CASE \E p \in PostIds : AcceptPostPlanning(h, p)
    BY <1>3, UIRequestSeen DEF P!Arrive
  <1>4. CASE \E ps \in SUBSET PostIds, chans \in SUBSET ChannelIds :
                BulkSetPostChannels(h, ps, chans) \/ APIBulkSetPostChannels(h, ps, chans)
    <2>1. PICK ps \in SUBSET PostIds, chans \in SUBSET ChannelIds :
                P!BulkSetPostChannels(h, ps, chans)
      BY <1>4, BulkSeen DEF APIBulkSetPostChannels
    <2> QED BY <2>1 DEF P!Arrive
  <1> QED BY <1>1, <1>2, <1>3, <1>4 DEF Arrive

-------------------------------------------------------------------------------
\* A row that is stored, and one that is deleted.
LEMMA StoredSeen ==
    ASSUME StoreTypeOK, NEW p \in PostIds, NEW row \in PostRow, NEW seen,
           posts' = [posts EXCEPT ![p] = row],
           seen = [row EXCEPT !.nextRetryAt = Null, !.failCount = 0]
    PROVE  PostsSeen' = [PostsSeen EXCEPT ![p] = seen]
  <1>1. PlanningRow(p)' = seen
    BY NoRowAssumption DEF PlanningRow, Exists, StoreTypeOK
  <1>2. \A q \in PostIds : q # p => PlanningRow(q)' = PlanningRow(q)
    BY DEF PlanningRow, Exists, StoreTypeOK
  <1> QED BY <1>1, <1>2 DEF PostsSeen

LEMMA DeletedSeen ==
    ASSUME StoreTypeOK, NEW p \in PostIds, DeletePost(p)
    PROVE  P!DeletePost(p)
  <1>1. PlanningRow(p)' = Null
    BY DEF DeletePost, PlanningRow, Exists, StoreTypeOK
  <1>2. \A q \in PostIds : q # p => PlanningRow(q)' = PlanningRow(q)
    BY DEF DeletePost, PlanningRow, Exists, StoreTypeOK
  <1>3. postChannels' = [postChannels EXCEPT ![p] = {}]
    BY DEF DeletePost
  <1> QED BY <1>1, <1>2, <1>3 DEF P!DeletePost

LEMMA UntouchedSeen == posts' = posts => PostsSeen' = PostsSeen
  BY DEF PostsSeen, PlanningRow, Exists

LEMMA InsertSeen ==
    ASSUME IInv, NEW h \in Handlers, InsertPost(h)
    PROVE  P!InsertPost(h)
  <1>1. PICK s, p : s = requests[h] /\ p = lastId + 1
    OBVIOUS
  <1>2. PICK row :
           row = [status |-> s.input.status, scheduledAt |-> s.input.scheduledAt,
                  nextRetryAt |-> Null, failCount |-> 0,
                  approvalPending |-> FlagOr(s.input.approvalPending, FALSE),
                  planningApproved |-> FlagOr(s.input.planningApproved, FALSE)]
    OBVIOUS
  <1>3. /\ s.pc = "insert"
        /\ p \in PostIds
        /\ posts' = [posts EXCEPT ![p] = row]
        /\ lastId' = p
        /\ cleared' = IF s.clears THEN cleared \cup {p} ELSE cleared
        /\ requests' = [requests EXCEPT ![h] = [s EXCEPT !.pc = "channels", !.todo = {p}]]
        /\ UNCHANGED <<now, postChannels, channels, attempts,
                       acceptBeforePlanning, begun>>
    BY <1>1, <1>2 DEF InsertPost
  <1>4. s \in Request /\ s.input \in Input
    BY <1>1, <1>3 DEF IInv, TypeOK, RequestsOK, RequestOK
  <1>5. row \in PostRow
    BY <1>2, <1>4 DEF PostRow, Input, FlagOr, MaybeMoments
  <1>6. row = [row EXCEPT !.nextRetryAt = Null, !.failCount = 0]
    <2>1. row.nextRetryAt = Null /\ row.failCount = 0
      BY <1>2
    <2> QED BY <1>5, <2>1 DEF PostRow
  <1>7. PostsSeen' = [PostsSeen EXCEPT ![p] = row]
    BY <1>3, <1>5, <1>6, StoredSeen DEF IInv, TypeOK
  <1> QED BY <1>1, <1>2, <1>3, <1>7, SameOperators DEF P!InsertPost, PostsSeen

LEMMA UpdatedSeen ==
    ASSUME NEW row \in PostRow, NEW input \in Input, NEW seen,
           seen = [row EXCEPT !.nextRetryAt = Null, !.failCount = 0]
    PROVE  /\ Updated(row, input) \in PostRow
           /\ P!Updated(seen, input) =
                 [Updated(row, input) EXCEPT !.nextRetryAt = Null, !.failCount = 0]
  <1>1. PICK pending, approved : /\ pending = FlagOr(input.approvalPending, row.approvalPending)
                                 /\ approved = FlagOr(input.planningApproved, row.planningApproved)
    OBVIOUS
  <1>2. pending \in BOOLEAN /\ approved \in BOOLEAN
    BY <1>1 DEF FlagOr, PostRow
  <1>3. PICK new : new = [row EXCEPT !.status = input.status,
                                     !.scheduledAt = input.scheduledAt,
                                     !.approvalPending = pending,
                                     !.planningApproved = approved]
    OBVIOUS
  <1>4. Updated(row, input) = new
    BY <1>1, <1>3 DEF Updated
  <1>5. new \in PostRow
    BY <1>2, <1>3 DEF PostRow, Input
  <1>6. seen.approvalPending = row.approvalPending /\ seen.planningApproved = row.planningApproved
    BY DEF PostRow
  <1>7. P!Updated(seen, input) = [seen EXCEPT !.status = input.status,
                                              !.scheduledAt = input.scheduledAt,
                                              !.approvalPending = pending,
                                              !.planningApproved = approved]
    BY <1>1, <1>6, SameOperators DEF P!Updated
  <1>8. [new EXCEPT !.nextRetryAt = Null, !.failCount = 0]
          = [seen EXCEPT !.status = input.status, !.scheduledAt = input.scheduledAt,
                         !.approvalPending = pending, !.planningApproved = approved]
    BY <1>2, <1>3 DEF PostRow, Input
  <1> QED BY <1>4, <1>5, <1>7, <1>8

LEMMA WriteSeen ==
    ASSUME IInv, NEW h \in Handlers, WritePost(h)
    PROVE  P!WritePost(h)
  <1>1. PICK s : s = requests[h]
    OBVIOUS
  <1>2. PICK p \in s.todo :
           IF Exists(p)
           THEN /\ posts' = [posts EXCEPT ![p] = Updated(@, s.input)]
                /\ cleared' = IF s.clears THEN cleared \cup {p} ELSE cleared
                /\ Continue(h, IF s.kind = "update"
                               THEN [s EXCEPT !.pc = "channels"] ELSE NoRequest)
           ELSE /\ UNCHANGED <<posts, cleared>>
                /\ Continue(h, NoRequest)
    BY <1>1 DEF WritePost
  <1>3. /\ s.pc = "update" /\ UNCHANGED <<now, postChannels, channels, attempts>>
        /\ StoreTypeOK
    BY <1>1 DEF WritePost, IInv, TypeOK
  <1>4. s.input \in Input /\ p \in PostIds
    BY <1>1, <1>2, <1>3 DEF IInv, TypeOK, Request, RequestsOK, RequestOK
  <1>5. CASE Exists(p)
    <2>1. posts[p] \in PostRow
      BY <1>3, <1>4, <1>5 DEF StoreTypeOK, Exists
    <2>2. PICK row, seen : /\ row = Updated(posts[p], s.input)
                           /\ seen = P!Updated(PostsSeen[p], s.input)
      OBVIOUS
    <2>3. PostsSeen[p] = [posts[p] EXCEPT !.nextRetryAt = Null, !.failCount = 0]
      BY <1>4, <1>5 DEF PostsSeen, PlanningRow
    <2>4. row \in PostRow /\ seen = [row EXCEPT !.nextRetryAt = Null, !.failCount = 0]
      BY <1>4, <2>1, <2>2, <2>3, UpdatedSeen
    <2>5. posts' = [posts EXCEPT ![p] = row]
      BY <1>2, <1>5, <2>2
    <2>6. PostsSeen' = [PostsSeen EXCEPT ![p] = seen]
      BY <1>3, <1>4, <2>4, <2>5, StoredSeen
    <2>7. PostsSeen' = [PostsSeen EXCEPT ![p] = P!Updated(@, s.input)] /\ P!Exists(p)
      BY <1>3, <1>4, <1>5, <2>2, <2>6, RowSeen DEF PostsSeen
    <2> QED BY <1>1, <1>2, <1>3, <1>5, <2>7, SameOperators, ContinueSeen
            DEF P!WritePost, PostsSeen
  <1>6. CASE ~Exists(p)
    <2>1. PostsSeen' = PostsSeen /\ ~P!Exists(p)
      BY <1>2, <1>3, <1>4, <1>6, UntouchedSeen, RowSeen
    <2> QED BY <1>1, <1>2, <1>3, <1>6, <2>1, SameOperators, ContinueSeen
            DEF P!WritePost, PostsSeen
  <1> QED BY <1>5, <1>6

LEMMA AcceptedSeen ==
    ASSUME IInv, NEW h \in Handlers, WriteAccepted(h)
    PROVE  P!WriteAccepted(h)
  <1>1. PICK s : s = requests[h]
    OBVIOUS
  <1>2. PICK p \in s.todo :
           IF Exists(p)
           THEN /\ posts' = [posts EXCEPT ![p] = [@ EXCEPT
                      !.status = "scheduled", !.approvalPending = FALSE,
                      !.planningApproved = TRUE]]
                /\ cleared' = cleared \cup {p}
           ELSE UNCHANGED <<posts, cleared>>
    BY <1>1 DEF WriteAccepted
  <1>3. /\ s.pc = "accept" /\ UNCHANGED <<now, postChannels, channels, attempts>>
        /\ Continue(h, NoRequest) /\ StoreTypeOK
    BY <1>1 DEF WriteAccepted, IInv, TypeOK
  <1>4. p \in PostIds
    BY <1>1, <1>2, <1>3 DEF IInv, TypeOK, Request
  <1>5. CASE Exists(p)
    <2>1. posts[p] \in PostRow
      BY <1>3, <1>4, <1>5 DEF StoreTypeOK, Exists
    <2>2. PostsSeen[p] = [posts[p] EXCEPT !.nextRetryAt = Null, !.failCount = 0]
      BY <1>4, <1>5 DEF PostsSeen, PlanningRow
    <2>3. PICK row, seen :
             /\ row = [posts[p] EXCEPT !.status = "scheduled", !.approvalPending = FALSE,
                                       !.planningApproved = TRUE]
             /\ seen = [PostsSeen[p] EXCEPT !.status = "scheduled", !.approvalPending = FALSE,
                                            !.planningApproved = TRUE]
      OBVIOUS
    <2>4. row \in PostRow
      BY <2>1, <2>3 DEF PostRow, PostStatus
    <2>5. seen = [row EXCEPT !.nextRetryAt = Null, !.failCount = 0]
      BY <2>1, <2>2, <2>3 DEF PostRow, PostStatus
    <2>6. posts' = [posts EXCEPT ![p] = row]
      BY <1>2, <1>5, <2>3
    <2>7. PostsSeen' = [PostsSeen EXCEPT ![p] = seen]
      BY <1>3, <1>4, <2>4, <2>5, <2>6, StoredSeen
    <2>8. /\ PostsSeen' = [PostsSeen EXCEPT ![p] = [@ EXCEPT
                !.status = "scheduled", !.approvalPending = FALSE, !.planningApproved = TRUE]]
          /\ P!Exists(p)
      BY <1>3, <1>4, <1>5, <2>3, <2>7, RowSeen DEF PostsSeen
    <2> QED BY <1>1, <1>2, <1>3, <1>5, <2>8, SameOperators, ContinueSeen
            DEF P!WriteAccepted, PostsSeen
  <1>6. CASE ~Exists(p)
    <2>1. PostsSeen' = PostsSeen /\ ~P!Exists(p)
      BY <1>2, <1>3, <1>4, <1>6, UntouchedSeen, RowSeen
    <2> QED BY <1>1, <1>2, <1>3, <1>6, <2>1, SameOperators, ContinueSeen
            DEF P!WriteAccepted, PostsSeen
  <1> QED BY <1>5, <1>6

LEMMA ReplaceSeen ==
    ASSUME IInv, NEW h \in Handlers, ReplacePostChannels(h)
    PROVE  P!ReplacePostChannels(h)
  <1>1. PostsSeen' = PostsSeen
    BY UntouchedSeen DEF ReplacePostChannels
  <1>2. \A p \in requests[h].todo : p \in PostIds
    BY DEF IInv, TypeOK, Request
  <1>3. \A p \in PostIds : P!Exists(p) <=> Exists(p)
    BY RowSeen DEF IInv, TypeOK
  <1> QED BY <1>1, <1>2, <1>3, SameOperators, ContinueSeen
          DEF ReplacePostChannels, P!ReplacePostChannels, PostsSeen

LEMMA UndoSeen ==
    ASSUME IInv, NEW h \in Handlers, UndoCreate(h)
    PROVE  P!UndoCreate(h)
  <1>1. PICK p \in requests[h].todo : DeletePost(p)
    BY DEF UndoCreate
  <1>2. P!DeletePost(p)
    BY <1>1, DeletedSeen DEF IInv, TypeOK, Request
  <1> QED BY <1>1, <1>2, SameOperators, ContinueSeen DEF UndoCreate, P!UndoCreate

LEMMA HandlerSeen == IInv /\ HandlerNext => P!HandlerNext
  <1> SUFFICES ASSUME IInv, HandlerNext PROVE P!HandlerNext
    OBVIOUS
  <1>1. StoreTypeOK
    BY DEF IInv, TypeOK
  <1>2. ASSUME NEW h \in Handlers, Handle(h) PROVE P!Handle(h)
    BY <1>2, InsertSeen, WriteSeen, AcceptedSeen, ReplaceSeen, UndoSeen DEF Handle, P!Handle
  <1>3. ASSUME NEW h \in Handlers, Abort(h) PROVE P!Abort(h)
    BY <1>3, SameOperators, ContinueSeen, UntouchedSeen
       DEF Abort, P!Abort, storeVars, P!storeVars, PostsSeen
  <1>4. ASSUME NEW p \in PostIds, RemovePost(p) PROVE P!RemovePost(p)
    BY <1>1, <1>4, RowSeen, DeletedSeen DEF RemovePost, P!RemovePost
  <1>5. ASSUME NEW c \in ChannelIds, DeleteChannel(c) PROVE P!DeleteChannel(c)
    BY <1>5, UntouchedSeen DEF DeleteChannel, P!DeleteChannel, PostsSeen
  <1>6. ASSUME NEW enabled \in BOOLEAN, UpdateApprovalPolicy(enabled)
        PROVE  P!UpdateApprovalPolicy(enabled)
    BY <1>6, UntouchedSeen DEF UpdateApprovalPolicy, P!UpdateApprovalPolicy, storeVars,
       P!storeVars, PostsSeen
  <1> QED BY <1>1, <1>2, <1>3, <1>4, <1>5, <1>6, ArriveSeen DEF HandlerNext, P!HandlerNext

-------------------------------------------------------------------------------
\* A worker stores a status for the post it has in hand.
LEMMA StatusSeen ==
    ASSUME StoreTypeOK, NEW p \in PostIds, p \in cleared, Exists(p),
           NEW status \in {"sent", "failed", "scheduled"}, NEW row \in PostRow, NEW seen,
           posts' = [posts EXCEPT ![p] = row],
           seen = [row EXCEPT !.nextRetryAt = Null, !.failCount = 0],
           seen = [posts[p] EXCEPT !.status = status, !.nextRetryAt = Null, !.failCount = 0],
           UNCHANGED <<postChannels, channels, requests, acceptBeforePlanning, lastId,
                       cleared, begun>>
    PROVE  P!ProcessPost(p, status, Null) /\ \A q \in PostIds : Exists(q) => Exists(q)'
  <1>1. posts[p] \in PostRow
    BY DEF StoreTypeOK, Exists
  <1>2. PICK old : old = PostsSeen[p]
    OBVIOUS
  <1>3. old = [posts[p] EXCEPT !.nextRetryAt = Null, !.failCount = 0]
    BY <1>2 DEF PostsSeen, PlanningRow
  <1>4. seen = [old EXCEPT !.status = status, !.failCount = old.failCount, !.nextRetryAt = Null]
    BY <1>1, <1>3 DEF PostRow
  <1>5. PostsSeen' = [PostsSeen EXCEPT ![p] = seen]
    BY StoredSeen
  <1>6. P!SetPostState(p, status, PostsSeen[p].failCount, Null)
    BY <1>2, <1>4, <1>5, RowSeen DEF P!SetPostState, PostsSeen
  <1>7. \A q \in PostIds : Exists(q) => Exists(q)'
    BY NoRowAssumption DEF Exists, StoreTypeOK
  <1> QED BY <1>6, <1>7 DEF P!ProcessPost, PostsSeen

LEMMA StoreSeen ==
    ASSUME PublishingInv, NEW w \in Workers,
           SP!StorePostState(w) \/ SP!LegacyMarkSent(w),
           UNCHANGED <<requests, acceptBeforePlanning, lastId, cleared, begun>>
    PROVE  [P!Next]_P!vars /\ \A q \in PostIds : Exists(q) => Exists(q)'
  <1>1. PICK s \in SP!Worker : s = workers[w]
    BY DEF PublishingInv, SP!TypeInv, SP!TypeOK
  <1>2. SP!InHand(s) /\ HandPlanned(s)
    BY <1>1 DEF PublishingInv, SP!TypeInv, Planned
  <1>3. PICK p : p = s.post.id
    OBVIOUS
  <1>4. p \in PostIds /\ p \in cleared /\ StoreTypeOK
    BY <1>1, <1>2, <1>3 DEF SP!StorePostState, SP!LegacyMarkSent, SP!InHand, SP!Snapshot,
       HandPlanned, PublishingInv, IInv, TypeOK
  <1>5. UNCHANGED <<postChannels, channels>>
    BY DEF SP!StorePostState, SP!LegacyMarkSent
  <1>6. CASE Exists(p) /\ SP!StorePostState(w)
    <2>1. PICK v : v = s.verdict
      OBVIOUS
    <2>2. v \in SP!Verdict
      BY <1>1, <1>2, <1>6, <2>1 DEF SP!StorePostState, SP!InHand
    <2>3. posts[p] \in PostRow
      BY <1>4, <1>6 DEF StoreTypeOK, Exists
    <2>4. PICK row : row = [posts[p] EXCEPT !.status = v.status, !.failCount = v.failCount,
                                            !.nextRetryAt = v.nextRetryAt]
      OBVIOUS
    <2>5. /\ v.status \in {"sent", "failed", "scheduled"}
          /\ v.failCount \in Nat /\ v.nextRetryAt \in MaybeMoments
      BY <2>2 DEF SP!Verdict, SP!PostStatus, SP!MaybeMoments, SP!Moments, MaybeMoments, Moments
    <2>6. row \in PostRow
      BY <2>3, <2>4, <2>5 DEF PostRow, PostStatus
    <2>7. posts' = [posts EXCEPT ![p] = row]
      BY <1>1, <1>3, <1>6, <2>1, <2>4 DEF SP!StorePostState, SP!SetPostState, SP!Exists, Exists
    <2>8. [row EXCEPT !.nextRetryAt = Null, !.failCount = 0]
            = [posts[p] EXCEPT !.status = v.status, !.nextRetryAt = Null, !.failCount = 0]
      BY <2>3, <2>4, <2>5 DEF PostRow
    <2>9. P!ProcessPost(p, v.status, Null) /\ \A q \in PostIds : Exists(q) => Exists(q)'
      BY <1>4, <1>5, <1>6, <2>5, <2>6, <2>7, <2>8, StatusSeen
    <2> QED BY <1>4, <2>5, <2>9 DEF P!Next, P!PostStatus
  <1>7. CASE Exists(p) /\ SP!LegacyMarkSent(w)
    <2>1. posts[p] \in PostRow
      BY <1>4, <1>7 DEF StoreTypeOK, Exists
    <2>2. PICK row : row = [posts[p] EXCEPT !.status = "sent", !.nextRetryAt = Null]
      OBVIOUS
    <2>3. row \in PostRow
      BY <2>1, <2>2 DEF PostRow, PostStatus, MaybeMoments
    <2>4. posts' = [posts EXCEPT ![p] = row]
      BY <1>1, <1>3, <1>7, <2>2 DEF SP!LegacyMarkSent, SP!MarkSent, SP!Exists, Exists
    <2>5. [row EXCEPT !.nextRetryAt = Null, !.failCount = 0]
            = [posts[p] EXCEPT !.status = "sent", !.nextRetryAt = Null, !.failCount = 0]
      BY <2>1, <2>2 DEF PostRow
    <2>6. P!ProcessPost(p, "sent", Null) /\ \A q \in PostIds : Exists(q) => Exists(q)'
      BY <1>4, <1>5, <1>7, <2>3, <2>4, <2>5, StatusSeen
    <2> QED BY <1>4, <2>6 DEF P!Next, P!PostStatus
  <1>8. CASE ~Exists(p)
    <2>1. posts' = posts
      BY <1>1, <1>3, <1>8 DEF SP!StorePostState, SP!LegacyMarkSent, SP!SetPostState,
         SP!MarkSent, SP!Exists, Exists
    <2> QED BY <1>5, <2>1, UntouchedSeen DEF P!vars, P!storeVars, PostsSeen, Exists
  <1> QED BY <1>6, <1>7, <1>8

\* Send-and-delete deletes the post as DeletePost does; when the post is gone,
\* its channels are gone too.
LEMMA DeleteSeen ==
    ASSUME PublishingInv, Assigned, NEW w \in Workers, SP!DeleteAfterSend(w),
           UNCHANGED <<requests, acceptBeforePlanning, lastId, cleared, begun>>
    PROVE  [P!Next]_P!vars
  <1>1. PICK p : p = workers[w].post.id
    OBVIOUS
  <1>2. p \in PostIds /\ StoreTypeOK
    BY <1>1 DEF SP!DeleteAfterSend, SP!InHand, SP!Snapshot, PublishingInv, SP!TypeInv,
       IInv, TypeOK
  <1>3. DeletePost(p) /\ channels' = channels
    BY <1>1 DEF SP!DeleteAfterSend, SP!DeletePost, DeletePost
  <1>4. P!DeletePost(p)
    BY <1>2, <1>3, DeletedSeen
  <1>5. CASE Exists(p)
    <2>1. P!RemovePost(p)
      BY <1>2, <1>3, <1>4, <1>5, RowSeen DEF P!RemovePost
    <2> QED BY <1>2, <2>1 DEF P!Next, P!HandlerNext
  <1>6. CASE ~Exists(p)
    <2>1. posts' = posts /\ postChannels' = postChannels
      BY <1>2, <1>3, <1>6 DEF DeletePost, Exists, Assigned, StoreTypeOK
    <2> QED BY <1>3, <2>1, UntouchedSeen DEF P!vars, P!storeVars, PostsSeen
  <1> QED BY <1>5, <1>6

LEMMA WorkSeen ==
    ASSUME PublishingInv, Assigned, Work
    PROVE  [P!Next]_P!vars
  <1>1. UNCHANGED <<requests, acceptBeforePlanning, lastId, cleared, begun>>
    BY DEF Work
  <1>2. \/ SP!Tick
        \/ \E w \in Workers :
              SP!RunDue(w) \/ SP!NextDuePost(w) \/ InProgress(w) \/ LetsGo(w)
    BY SameTick, SameRunDue, SameProcess, SameFaults
       DEF Work, SP!Process, InProgress, LetsGo
  <1>3. CASE \E w \in Workers : SP!StorePostState(w) \/ SP!LegacyMarkSent(w)
    BY <1>1, <1>3, StoreSeen
  <1>4. CASE \E w \in Workers : SP!DeleteAfterSend(w)
    BY <1>1, <1>4, DeleteSeen
  <1>5. CASE ~\E w \in Workers : SP!StorePostState(w) \/ SP!LegacyMarkSent(w)
                                 \/ SP!DeleteAfterSend(w)
    <2>1. UNCHANGED <<posts, postChannels, channels>>
      BY <1>2, <1>5 DEF SP!Tick, InProgress, LetsGo, SP!RunDue, SP!NextDuePost,
         SP!LoadChannels, SP!GetLatest, SP!CheckDailyLimit, SP!Publish, SP!InsertAttempt,
         SP!Reconcile, SP!LegacyPublish, SP!Crash, SP!StatementFails, SP!storeVars
    <2> QED BY <1>1, <2>1, UntouchedSeen DEF P!vars, P!storeVars, PostsSeen
  <1> QED BY <1>3, <1>4, <1>5

LEMMA SendSeen ==
    ASSUME PublishingInv, NEW w \in Workers, NEW p \in PostIds, Send(w, p)
    PROVE  P!AskToSend(p)
  <1>1. PICK del \in BOOLEAN : SP!SendNow(w, p, del)
    BY SameSend DEF Send, SP!Send, SP!SendNowPost, SP!SendAndDeletePost, SP!BulkSendNowPosts,
       SP!APIRetryPostAttempt
  <1>2. /\ Exists(p) /\ posts[p].status # "sent"
        /\ UNCHANGED <<posts, postChannels, channels>>
    BY <1>1 DEF SP!SendNow, SP!Exists, Exists, SP!storeVars
  <1>3. P!Exists(p) /\ PostsSeen[p].status # "sent"
    BY <1>2, RowSeen DEF PublishingInv, IInv, TypeOK
  <1> QED BY <1>2, <1>3, UntouchedSeen DEF Send, P!AskToSend, P!storeVars, PostsSeen

\* A handler that stores a row takes none away.
LEMMA RowsStay ==
    ASSUME IInv, NEW h \in Handlers, InsertPost(h) \/ WritePost(h) \/ WriteAccepted(h)
    PROVE  \A q \in PostIds : Exists(q) => Exists(q)'
  <1>1. PICK s : s = requests[h]
    OBVIOUS
  <1>2. s \in Request /\ (s.pc \in {"insert", "update"} => s.input \in Input) /\ StoreTypeOK
    BY <1>1 DEF IInv, TypeOK, RequestsOK, RequestOK
  <1>3. ASSUME NEW p \in PostIds, NEW row \in PostRow, posts' = [posts EXCEPT ![p] = row]
        PROVE  \A q \in PostIds : Exists(q) => Exists(q)'
    BY <1>2, <1>3, NoRowAssumption DEF Exists, StoreTypeOK
  <1>4. CASE InsertPost(h)
    <2>1. PICK row : row = [status |-> s.input.status, scheduledAt |-> s.input.scheduledAt,
                            nextRetryAt |-> Null, failCount |-> 0,
                            approvalPending |-> FlagOr(s.input.approvalPending, FALSE),
                            planningApproved |-> FlagOr(s.input.planningApproved, FALSE)]
      OBVIOUS
    <2>2. s.input \in Input
      BY <1>1, <1>2, <1>4 DEF InsertPost
    <2>3. row \in PostRow
      BY <2>1, <2>2 DEF PostRow, Input, FlagOr, MaybeMoments
    <2>4. PICK p \in PostIds : posts' = [posts EXCEPT ![p] = row]
      BY <1>1, <1>4, <2>1 DEF InsertPost
    <2> QED BY <1>3, <2>3, <2>4
  <1>5. CASE WritePost(h) /\ posts' # posts
    <2>1. PICK p \in s.todo : /\ Exists(p)
                              /\ posts' = [posts EXCEPT ![p] = Updated(posts[p], s.input)]
      BY <1>1, <1>5 DEF WritePost
    <2>2. p \in PostIds /\ posts[p] \in PostRow /\ s.input \in Input
      BY <1>1, <1>2, <1>5, <2>1 DEF Request, StoreTypeOK, Exists, WritePost
    <2>3. Updated(posts[p], s.input) \in PostRow
      BY <2>2, UpdatedSeen
    <2> QED BY <1>3, <2>1, <2>2, <2>3
  <1>6. CASE WriteAccepted(h) /\ posts' # posts
    <2>1. PICK p \in s.todo :
             /\ Exists(p)
             /\ posts' = [posts EXCEPT ![p] = [posts[p] EXCEPT
                   !.status = "scheduled", !.approvalPending = FALSE,
                   !.planningApproved = TRUE]]
      BY <1>1, <1>6 DEF WriteAccepted
    <2>2. p \in PostIds /\ posts[p] \in PostRow
      BY <1>2, <2>1 DEF Request, StoreTypeOK, Exists
    <2>3. PICK row : row = [posts[p] EXCEPT !.status = "scheduled",
                               !.approvalPending = FALSE, !.planningApproved = TRUE]
      OBVIOUS
    <2>4. row \in PostRow
      BY <2>2, <2>3 DEF PostRow, PostStatus
    <2> QED BY <1>3, <2>1, <2>2, <2>3, <2>4
  <1> QED BY <1>4, <1>5, <1>6 DEF Exists

\* The assignments of a post go with it, whoever deletes it.
LEMMA AssignedStep ==
    ASSUME PublishingInv, Assigned, [PublishingNext]_publishingVars
    PROVE  Assigned'
  <1>1. StoreTypeOK /\ TypeOK /\ IInv
    BY DEF PublishingInv, IInv, TypeOK
  <1>2. ASSUME NEW p \in PostIds, DeletePost(p) PROVE Assigned'
    BY <1>1, <1>2 DEF DeletePost, Assigned, Exists, StoreTypeOK
  <1>3. ASSUME UNCHANGED postChannels, \A p \in PostIds : Exists(p) => Exists(p)' PROVE Assigned'
    BY <1>3 DEF Assigned
  <1>4. ASSUME UNCHANGED <<posts, postChannels>> PROVE Assigned'
    BY <1>4 DEF Assigned, Exists
  <1>5. CASE Plan
    <2>1. HandlerNext
      BY <1>5 DEF Plan
    <2>2. ASSUME NEW h \in Handlers, InsertPost(h) \/ WritePost(h) \/ WriteAccepted(h)
          PROVE  Assigned'
      <3>1. postChannels' = postChannels
        BY <2>2 DEF InsertPost, WritePost, WriteAccepted
      <3> QED BY <1>1, <1>3, <2>2, <3>1, RowsStay
    <2>3. ASSUME NEW h \in Handlers, ReplacePostChannels(h) PROVE Assigned'
      <3>1. PICK p \in requests[h].todo, ok \in BOOLEAN :
               /\ ok => requests[h].channels = {} \/ Exists(p)
               /\ postChannels' = IF ok THEN [postChannels EXCEPT ![p] = requests[h].channels]
                                        ELSE postChannels
        BY <2>3 DEF ReplacePostChannels
      <3>2. posts' = posts
        BY <2>3 DEF ReplacePostChannels
      <3> QED BY <1>1, <3>1, <3>2 DEF Assigned, Exists, StoreTypeOK
    <2>4. ASSUME NEW c \in ChannelIds, DeleteChannel(c) PROVE Assigned'
      BY <1>1, <2>4 DEF DeleteChannel, Assigned, Exists, StoreTypeOK
    <2>5. ASSUME NEW h \in Handlers, UndoCreate(h) PROVE Assigned'
      BY <1>1, <1>2, <2>5 DEF UndoCreate, TypeOK, Request
    <2>6. ASSUME NEW h \in Handlers, Abort(h) \/ Arrive(h) PROVE Assigned'
      <3>1. UNCHANGED <<posts, postChannels>>
        BY <2>6, ArriveKeeps DEF Abort, storeVars
      <3> QED BY <1>4, <3>1
    <2>7. ASSUME NEW enabled \in BOOLEAN, UpdateApprovalPolicy(enabled) PROVE Assigned'
      BY <1>4, <2>7 DEF UpdateApprovalPolicy, storeVars
    <2> QED BY <1>2, <2>1, <2>2, <2>3, <2>4, <2>5, <2>6, <2>7
            DEF HandlerNext, Handle, RemovePost
  <1>6. CASE Work
    <2>1. \/ SP!Tick
          \/ \E w \in Workers :
                SP!RunDue(w) \/ SP!NextDuePost(w) \/ InProgress(w) \/ LetsGo(w)
      BY <1>6, SameTick, SameRunDue, SameProcess, SameFaults
         DEF Work, SP!Process, InProgress, LetsGo
    <2>2. CASE \E w \in Workers : SP!DeleteAfterSend(w)
      <3>1. PICK p \in PostIds : DeletePost(p)
        BY <2>2 DEF SP!DeleteAfterSend, SP!DeletePost, DeletePost, PublishingInv, SP!TypeInv,
           SP!InHand, SP!Snapshot
      <3> QED BY <1>2, <3>1
    <2>3. CASE \E w \in Workers : SP!StorePostState(w) \/ SP!LegacyMarkSent(w)
      <3>1. UNCHANGED <<postChannels, requests, acceptBeforePlanning, lastId, cleared, begun>>
        BY <1>6, <2>3 DEF Work, SP!StorePostState, SP!LegacyMarkSent
      <3> QED BY <1>3, <2>3, <3>1, StoreSeen
    <2> QED BY <1>4, <2>1, <2>2, <2>3
            DEF SP!Tick, InProgress, LetsGo, SP!RunDue, SP!NextDuePost,
         SP!LoadChannels, SP!GetLatest, SP!CheckDailyLimit, SP!Publish, SP!InsertAttempt,
         SP!Reconcile, SP!LegacyPublish, SP!Crash, SP!StatementFails, SP!storeVars
  <1>7. CASE UNCHANGED publishingVars
    BY <1>4, <1>7 DEF publishingVars, vars, storeVars
  <1>8. ASSUME NEW w \in Workers, NEW p \in PostIds, Send(w, p) PROVE Assigned'
    <2>1. UNCHANGED <<posts, postChannels>>
      BY <1>8, SameSend DEF Send, SP!Send, SP!SendNowPost, SP!SendAndDeletePost,
         SP!BulkSendNowPosts, SP!APIRetryPostAttempt, SP!SendNow, SP!storeVars
    <2> QED BY <1>4, <2>1
  <1> QED BY <1>5, <1>6, <1>7, <1>8 DEF PublishingNext

\* The workers are to Planning what it takes them for: it sees them store a
\* status for a post that was planned, ask for a post to be sent and delete one,
\* for any number of them and whatever handlers do meanwhile.
THEOREM PublishingImplementsPlanning == PublishingSpec => ImplementsPlanning
  <1>1. PublishingInit => P!Init /\ Assigned
    <2> SUFFICES ASSUME PublishingInit PROVE P!Init /\ Assigned
      OBVIOUS
    <2>1. Init
      BY DEF PublishingInit
    <2>2. StoreTypeOK
      BY <2>1, InitOK DEF IInv, TypeOK
    <2>3. \A p \in PostIds : P!Exists(p) <=> Exists(p)
      BY <2>2, RowSeen
    <2>4. \A p \in PostIds : PlanningRow(p) = posts[p]
      <3> SUFFICES ASSUME NEW p \in PostIds, Exists(p)
                   PROVE  [posts[p] EXCEPT !.nextRetryAt = Null, !.failCount = 0] = posts[p]
        BY DEF PlanningRow, Exists
      <3>1. posts[p] \in Draft
        BY <2>1 DEF Init, Exists
      <3> QED BY <3>1 DEF Draft
    <2>5. PostsSeen \in [PostIds -> P!Draft \cup {Null}]
      BY <2>1, <2>4 DEF Init, PostsSeen, Draft, P!Draft
    <2> QED BY <2>1, <2>3, <2>5, SameOperators
            DEF Init, P!Init, Assigned, PostsSeen, ChannelStatus, P!ChannelStatus
  <1>2. PublishingInv /\ Assigned /\ [PublishingNext]_publishingVars => [P!Next]_P!vars /\ Assigned'
    <2> SUFFICES ASSUME PublishingInv, Assigned, [PublishingNext]_publishingVars
                 PROVE  [P!Next]_P!vars
      BY AssignedStep
    <2>1. CASE Plan
      BY <2>1, HandlerSeen DEF Plan, PublishingInv, P!Next
    <2>2. CASE \E w \in Workers, p \in PostIds : Send(w, p)
      BY <2>2, SendSeen DEF P!Next
    <2>3. CASE UNCHANGED publishingVars
      BY <2>3, UntouchedSeen DEF publishingVars, vars, storeVars, P!vars, P!storeVars, PostsSeen
    <2> QED BY <2>1, <2>2, <2>3, WorkSeen DEF PublishingNext
  <1> QED BY <1>1, <1>2, PublishingCorrect, PTL DEF PublishingSpec, ImplementsPlanning, P!Spec
===============================================================================
