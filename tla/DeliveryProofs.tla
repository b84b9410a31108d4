---------------------------- MODULE DeliveryProofs ----------------------------
(***************************************************************************)
(* What the statuses, deletions and attempts of the publishing service     *)
(* mean, for any number of posts, channels and workers: a post that is sent *)
(* or deleted by send-and-delete was delivered, the scheduler attempts only *)
(* what is due, and the table of attempts is a DeliveryLog.                *)
(***************************************************************************)
EXTENDS SchedulerProofs

InLoop == {"channels", "limit", "publish", "insert"}

\* What a worker may rely on as long as its post exists: its channels are those
\* of the post; a request that has met no error so far has a sent row for each
\* channel its loop has left behind; it stores `sent', or deletes the post, only
\* when the post was delivered.
DeliveryInHand(s) ==
    LET p == s.post.id
    IN /\ s.deleteAfter => s.force
       /\ s.pc \notin {"idle", "due"} /\ Exists(p) =>
             /\ s.pc \in InLoop => s.eligible = Eligible(p) /\ s.eligible # {}
             /\ s.pc \in InLoop /\ s.force /\ ~s.err =>
                   \A c \in s.eligible \ s.todo :
                      HasSentRow(p, c) \/ (s.pc # "channels" /\ c = s.channel)
             /\ s.pc = "insert" /\ s.result.status = "sent" => published[p][s.channel] > 0
             /\ s.pc \in {"legacy", "mark"} => postChannels[p] = {}
             /\ s.pc = "mark" => published[p][Fallback] > 0
             /\ s.pc = "store" /\ (s.verdict.status = "sent" \/ (s.force /\ ~s.err))
                   => Delivered(p)
             /\ s.pc = "delete" => Delivered(p)

\* What lets the scheduler process make its attempt: the moment of the post, or
\* the retry row it follows, both as they are still stored.
DueInHand(s) ==
    /\ ~s.force
    /\ \A t \in s.batch : Exists(t.id) => t.scheduledAt = posts[t.id].scheduledAt
    /\ s.pc \notin {"idle", "due"} /\ Exists(s.post.id) =>
          /\ s.post.scheduledAt = posts[s.post.id].scheduledAt
          /\ s.pc \in {"limit", "publish", "insert"} =>
                IF s.no = 1 THEN s.post.scheduledAt <= s.at
                ELSE \E r \in attempts : /\ r.post = s.post.id
                                         /\ r.channel = s.channel
                                         /\ r.no = s.no - 1
                                         /\ r.status = "retry"
                                         /\ r.retryAt <= s.at

SentRowsWereDelivered ==
    \A r \in attempts : r.status = "sent" => published[r.post][r.channel] > 0

DeliveryInv ==
    /\ SentRowsWereDelivered
    /\ SentPostWasDelivered
    /\ \A w \in Workers : DeliveryInHand(workers[w])
    /\ DueInHand(workers[SchedulerProcess])

-------------------------------------------------------------------------------
(***************************************************************************)
(* What no step takes away.                                                *)
(***************************************************************************)
\* Posts only vanish, with their rows; channels and assignments stay as they are
\* as long as the post exists; what was published stays published.
Grows ==
    /\ channels' = channels
    /\ \A p \in PostIds : posts'[p] # Null =>
          /\ posts[p] # Null
          /\ posts'[p].scheduledAt = posts[p].scheduledAt
          /\ postChannels'[p] = postChannels[p]
    /\ \A p \in PostIds, t \in Targets :
          published[p][t] > 0 => published'[p][t] > 0
    /\ \A r \in attempts : posts'[r.post] # Null => r \in attempts'

LEMMA StoredGrows ==
    ASSUME TypeInv, channels' = channels, postChannels' = postChannels,
           published' = published, attempts' = attempts,
           \A p \in PostIds : posts'[p] # Null =>
              posts[p] # Null /\ posts'[p].scheduledAt = posts[p].scheduledAt
    PROVE  Grows
  BY DEF Grows

LEMMA DeliverGrows ==
    ASSUME TypeInv, storeVars' = storeVars, NEW p \in PostIds, NEW t \in Targets,
           NEW o, Deliver(p, t, o)
    PROVE  Grows
  <1>1. published \in [PostIds -> [Targets -> Nat]]
    BY DEF TypeInv, TypeOK
  <1>2. ASSUME NEW q \in PostIds, NEW u \in Targets, published[q][u] > 0
        PROVE  published'[q][u] > 0
    <2>1. CASE published' = published
      BY <1>2, <2>1
    <2>2. CASE published' = [published EXCEPT ![p][t] = @ + 1]
      <3>1. published'[q] = IF q = p THEN [published[p] EXCEPT ![t] = @ + 1] ELSE published[q]
        BY <1>1, <2>2
      <3>2. published'[q][u] \in {published[q][u], published[q][u] + 1}
        BY <1>1, <3>1
      <3>3. published[q][u] \in Nat
        BY <1>1
      <3> QED BY <1>2, <3>2, <3>3
    <2> QED BY <2>1, <2>2 DEF Deliver
  <1> QED BY <1>2 DEF Grows, storeVars

LEMMA NextGrows ==
    ASSUME TypeInv, [Next]_vars PROVE Grows
  <1>1. CASE UNCHANGED <<posts, postChannels, channels, attempts, published>>
    BY <1>1 DEF Grows
  <1>2. CASE Tick \/ UNCHANGED vars
    BY <1>1, <1>2 DEF Tick, vars, storeVars
  <1>3. ASSUME NEW w \in Workers,
               \/ RunDue(w) \/ NextDuePost(w) \/ LoadChannels(w) \/ GetLatest(w)
               \/ CheckDailyLimit(w) \/ Reconcile(w) \/ Crash(w) \/ StatementFails(w)
               \/ \E p \in PostIds, del \in BOOLEAN : SendNow(w, p, del)
        PROVE  Grows
    BY <1>1, <1>3 DEF storeVars, RunDue, NextDuePost, LoadChannels, GetLatest,
       CheckDailyLimit, Reconcile, Crash, StatementFails, SendNow
  <1>4. ASSUME NEW w \in Workers, Publish(w) PROVE Grows
    <2>1. workers[w].post.id \in PostIds /\ workers[w].channel \in Targets
      BY <1>4 DEF Publish, TypeInv, InHand, Snapshot, Targets
    <2>2. PICK o \in Outcomes : Deliver(workers[w].post.id, workers[w].channel, o)
      BY <1>4 DEF Publish
    <2> QED BY <1>4, <2>1, <2>2, DeliverGrows DEF Publish
  <1>5. ASSUME NEW w \in Workers, LegacyPublish(w) PROVE Grows
    <2>1. workers[w].post.id \in PostIds /\ Fallback \in Targets
      BY <1>5 DEF LegacyPublish, TypeInv, InHand, Snapshot, Targets
    <2>2. PICK o \in Outcomes : Deliver(workers[w].post.id, Fallback, o)
      BY <1>5 DEF LegacyPublish
    <2> QED BY <1>5, <2>1, <2>2, DeliverGrows DEF LegacyPublish
  <1>6. ASSUME NEW w \in Workers, InsertAttempt(w) PROVE Grows
    BY <1>6 DEF InsertAttempt, InsertPublishAttempt, Grows
  <1>7. ASSUME NEW w \in Workers, StorePostState(w) \/ LegacyMarkSent(w) PROVE Grows
    <2>1. posts \in [PostIds -> PostRow \cup {Null}] /\ workers[w].post.id \in PostIds
      BY <1>7 DEF TypeInv, TypeOK, StoreTypeOK, InHand, StorePostState, LegacyMarkSent,
         Snapshot
    <2>2. \A p \in PostIds : posts'[p] # Null =>
             posts[p] # Null /\ posts'[p].scheduledAt = posts[p].scheduledAt
      <3>1. CASE posts' = posts
        BY <3>1
      <3>2. PICK row : \/ posts' = posts
                       \/ /\ Exists(workers[w].post.id)
                          /\ posts' = [posts EXCEPT ![workers[w].post.id] = row]
                          /\ row.scheduledAt = posts[workers[w].post.id].scheduledAt
        <4>1. CASE StorePostState(w)
          <5> DEFINE v == workers[w].verdict
                     r == [posts[workers[w].post.id] EXCEPT !.status = v.status,
                              !.failCount = v.failCount, !.nextRetryAt = v.nextRetryAt]
          <5>1. CASE Exists(workers[w].post.id)
            <6>1. r.scheduledAt = posts[workers[w].post.id].scheduledAt
              BY <2>1, <5>1 DEF Exists, PostRow
            <6>2. posts' = [posts EXCEPT ![workers[w].post.id] = r]
              BY <4>1, <5>1 DEF StorePostState, SetPostState
            <6> QED BY <5>1, <6>1, <6>2
          <5>2. CASE ~Exists(workers[w].post.id)
            BY <4>1, <5>2 DEF StorePostState, SetPostState
          <5> QED BY <5>1, <5>2
        <4>2. CASE LegacyMarkSent(w)
          <5> DEFINE r == [posts[workers[w].post.id] EXCEPT !.status = "sent",
                              !.nextRetryAt = Null]
          <5>1. CASE Exists(workers[w].post.id)
            <6>1. r.scheduledAt = posts[workers[w].post.id].scheduledAt
              BY <2>1, <5>1 DEF Exists, PostRow
            <6>2. posts' = [posts EXCEPT ![workers[w].post.id] = r]
              BY <4>2, <5>1 DEF LegacyMarkSent, MarkSent
            <6> QED BY <5>1, <6>1, <6>2
          <5>2. CASE ~Exists(workers[w].post.id)
            BY <4>2, <5>2 DEF LegacyMarkSent, MarkSent
          <5> QED BY <5>1, <5>2
        <4> QED BY <1>7, <4>1, <4>2
      <3> QED BY <2>1, <3>1, <3>2 DEF Exists
    <2> QED BY <1>7, <2>2, StoredGrows DEF StorePostState, LegacyMarkSent
  <1>8. ASSUME NEW w \in Workers, DeleteAfterSend(w) PROVE Grows
    <2>1. workers[w].post.id \in PostIds
      BY <1>8 DEF TypeInv, InHand, DeleteAfterSend, Snapshot
    <2> DEFINE p == workers[w].post.id
    <2>2. /\ posts' = [posts EXCEPT ![p] = Null]
          /\ postChannels' = [postChannels EXCEPT ![p] = {}]
          /\ attempts' = {r \in attempts : r.post # p}
          /\ channels' = channels /\ published' = published
      BY <1>8 DEF DeleteAfterSend, DeletePost
    <2> HIDE DEF p
    <2>3. posts' \in [PostIds -> PostRow \cup {Null}]
          /\ posts \in [PostIds -> PostRow \cup {Null}]
          /\ postChannels \in [PostIds -> SUBSET ChannelIds]
      BY <2>1, <2>2 DEF TypeInv, TypeOK, StoreTypeOK, p
    <2>4. p \in PostIds
      BY <2>1 DEF p
    <2>5. ASSUME NEW q \in PostIds, posts'[q] # Null
          PROVE  q # p /\ posts'[q] = posts[q] /\ postChannels'[q] = postChannels[q]
      BY <2>2, <2>3, <2>4, <2>5
    <2>6. ASSUME NEW r \in attempts, posts'[r.post] # Null PROVE r \in attempts'
      <3>1. r.post \in PostIds
        BY DEF TypeInv, TypeOK, StoreTypeOK, AttemptRow
      <3> QED BY <2>2, <2>5, <2>6, <3>1
    <2> QED BY <2>2, <2>5, <2>6 DEF Grows
  <1> QED BY <1>2, <1>3, <1>4, <1>5, <1>6, <1>7, <1>8, SendIsSendNow DEF Next, Process

\* What a worker relies on therefore lasts as long as its post.
LEMMA PostKept ==
    ASSUME TypeInv, Grows, NEW p \in PostIds, Exists(p)'
    PROVE  /\ Exists(p)
           /\ posts'[p].scheduledAt = posts[p].scheduledAt
           /\ postChannels'[p] = postChannels[p]
           /\ Eligible(p)' = Eligible(p)
           /\ \A c \in ChannelIds : HasSentRow(p, c) => HasSentRow(p, c)'
           /\ Delivered(p) => Delivered(p)'
  <1>1. /\ Exists(p)
        /\ posts'[p].scheduledAt = posts[p].scheduledAt
        /\ postChannels'[p] = postChannels[p]
        /\ channels' = channels
    BY DEF Grows, Exists
  <1>2. Eligible(p)' = Eligible(p)
    BY <1>1 DEF Eligible
  <1>3. \A c \in ChannelIds : HasSentRow(p, c) => HasSentRow(p, c)'
    <2> SUFFICES ASSUME NEW c \in ChannelIds, HasSentRow(p, c) PROVE HasSentRow(p, c)'
      OBVIOUS
    <2>1. PICK r \in attempts : r.post = p /\ r.channel = c /\ r.status = "sent"
      BY DEF HasSentRow, AttemptsOf
    <2>2. r \in attempts'
      BY <2>1 DEF Grows, Exists
    <2> QED BY <2>1, <2>2 DEF HasSentRow, AttemptsOf
  <1>4. ASSUME Delivered(p) PROVE Delivered(p)'
    <2>1. Eligible(p) \subseteq ChannelIds
      BY DEF Eligible, TypeInv, TypeOK, StoreTypeOK
    <2>2. \A t \in Targets : published[p][t] > 0 => published'[p][t] > 0
      BY DEF Grows
    <2>3. CASE postChannels[p] = {}
      <3>1. Fallback \in Targets
        BY DEF Targets
      <3> QED BY <1>1, <1>4, <2>2, <2>3, <3>1 DEF Delivered
    <2>4. CASE postChannels[p] # {}
      <3>1. ASSUME NEW c \in Eligible(p)
            PROVE  /\ published'[p][c] > 0
                   /\ HasSentRow(p, c)'
        <4>1. c \in ChannelIds /\ c \in Targets
          BY <2>1 DEF Targets
        <4>2. published[p][c] > 0 /\ HasSentRow(p, c)
          BY <1>4, <2>4 DEF Delivered, HasSentRow
        <4> QED BY <1>3, <2>2, <4>1, <4>2
      <3>2. Eligible(p) # {}
        BY <1>4, <2>4 DEF Delivered
      <3> QED BY <1>1, <1>2, <2>4, <3>1, <3>2 DEF Delivered, HasSentRow
    <2> QED BY <2>3, <2>4
  <1> QED BY <1>1, <1>2, <1>3, <1>4

LEMMA HandKept ==
    ASSUME TypeInv, Grows, NEW s \in Worker, InHand(s), DeliveryInHand(s)
    PROVE  DeliveryInHand(s)'
  <1> DEFINE p == s.post.id
  <1>1. CASE s.pc \in {"idle", "due"} \/ ~Exists(p)'
    BY <1>1 DEF DeliveryInHand
  <1>2. CASE s.pc \notin {"idle", "due"} /\ Exists(p)'
    <2>1. p \in PostIds
      BY <1>2 DEF InHand, Snapshot
    <2>2. /\ Exists(p)
          /\ postChannels'[p] = postChannels[p]
          /\ Eligible(p)' = Eligible(p)
          /\ \A c \in ChannelIds : HasSentRow(p, c) => HasSentRow(p, c)'
          /\ Delivered(p) => Delivered(p)'
      BY <1>2, <2>1, PostKept
    <2>3. \A t \in Targets : published[p][t] > 0 => published'[p][t] > 0
      BY <2>1 DEF Grows
    <2>4. s.eligible \subseteq ChannelIds
      BY DEF Worker
    <2>5. s.pc = "insert" => s.channel \in Targets
      BY DEF InHand, Targets
    <2>6. Fallback \in Targets
      BY DEF Targets
    <2> HIDE DEF p
    <2> QED BY <1>2, <2>2, <2>3, <2>4, <2>5, <2>6 DEF DeliveryInHand, p
  <1> QED BY <1>1, <1>2

LEMMA DueKept ==
    ASSUME TypeInv, Grows, NEW s \in Worker, InHand(s), DueInHand(s)
    PROVE  DueInHand(s)'
  <1>1. ASSUME NEW t \in s.batch, Exists(t.id)'
        PROVE  t.scheduledAt = posts'[t.id].scheduledAt
    <2>1. t.id \in PostIds
      BY DEF Worker, Snapshot
    <2> QED BY <1>1, <2>1, PostKept DEF DueInHand
  <1>2. ASSUME s.pc \notin {"idle", "due"}, Exists(s.post.id)'
        PROVE  /\ Exists(s.post.id)
               /\ s.post.scheduledAt = posts'[s.post.id].scheduledAt
               /\ \A r \in attempts : r.post = s.post.id => r \in attempts'
    <2>1. s.post.id \in PostIds
      BY <1>2 DEF InHand, Snapshot
    <2>2. Exists(s.post.id) /\ posts'[s.post.id].scheduledAt = posts[s.post.id].scheduledAt
      BY <1>2, <2>1, PostKept
    <2> QED BY <1>2, <2>2 DEF DueInHand, Grows, Exists
  <1> QED BY <1>1, <1>2 DEF DueInHand

-------------------------------------------------------------------------------
(***************************************************************************)
(* The invariant of deliveries, action by action.                          *)
(***************************************************************************)
\* A worker moves; the others keep what they rely on.
LEMMA WorkerMoves ==
    ASSUME TypeInv, DeliveryInv, Grows, NEW w \in Workers, NEW t,
           workers' = [workers EXCEPT ![w] = t],
           DeliveryInHand(t)', w = SchedulerProcess => DueInHand(t)',
           SentRowsWereDelivered', SentPostWasDelivered'
    PROVE  DeliveryInv'
  <1>1. ASSUME NEW v \in Workers PROVE DeliveryInHand(workers[v])'
    <2>1. CASE v = w
      <3>1. workers'[v] = t
        BY <2>1 DEF TypeInv, TypeOK
      <3> QED BY <3>1 DEF DeliveryInHand
    <2>2. CASE v # w
      <3>1. PICK s \in Worker : s = workers[v]
        BY DEF TypeInv, TypeOK
      <3>2. DeliveryInHand(s)'
        BY <3>1, HandKept DEF DeliveryInv, TypeInv
      <3>3. workers'[v] = s
        BY <2>2, <3>1 DEF TypeInv, TypeOK
      <3> QED BY <3>2, <3>3 DEF DeliveryInHand
    <2> QED BY <2>1, <2>2
  <1>2. DueInHand(workers[SchedulerProcess])'
    <2>1. CASE SchedulerProcess = w
      <3>1. workers'[SchedulerProcess] = t
        BY <2>1 DEF TypeInv, TypeOK
      <3> QED BY <2>1, <3>1 DEF DueInHand
    <2>2. CASE SchedulerProcess # w
      <3>1. PICK s \in Worker : s = workers[SchedulerProcess]
        BY WorkersAssumption DEF TypeInv, TypeOK
      <3>2. DueInHand(s)'
        BY <3>1, DueKept, WorkersAssumption DEF DeliveryInv, TypeInv
      <3>3. workers'[SchedulerProcess] = s
        BY <2>2, <3>1, WorkersAssumption DEF TypeInv, TypeOK
      <3> QED BY <3>2, <3>3 DEF DueInHand
    <2> QED BY <2>1, <2>2
  <1> QED BY <1>1, <1>2 DEF DeliveryInv

LEMMA RowsStayDelivered ==
    ASSUME TypeInv, DeliveryInv, Grows, attempts' = attempts
    PROVE  SentRowsWereDelivered'
  <1> SUFFICES ASSUME NEW r \in attempts, r.status = "sent"
               PROVE  published'[r.post][r.channel] > 0
    BY DEF SentRowsWereDelivered
  <1>1. r.post \in PostIds /\ r.channel \in Targets
    BY DEF TypeInv, TypeOK, StoreTypeOK, AttemptRow, Targets
  <1>2. published[r.post][r.channel] > 0
    BY DEF DeliveryInv, SentRowsWereDelivered
  <1> QED BY <1>1, <1>2 DEF Grows

LEMMA PostsStayDelivered ==
    ASSUME TypeInv, DeliveryInv, Grows,
           \A p \in PostIds : Exists(p)' /\ posts'[p].status = "sent" =>
              posts[p].status = "sent" \/ Delivered(p)
    PROVE  SentPostWasDelivered'
  <1> SUFFICES ASSUME NEW p \in PostIds, Exists(p)', posts'[p].status = "sent"
               PROVE  Delivered(p)'
    BY DEF SentPostWasDelivered
  <1>1. Exists(p) /\ (Delivered(p) => Delivered(p)')
    BY PostKept
  <1> QED BY <1>1 DEF DeliveryInv, SentPostWasDelivered

\* A worker moves on with what it may rely on before the step already.
LEMMA LocalMove ==
    ASSUME TypeInv, DeliveryInv, Grows, NEW w \in Workers, NEW t \in Worker,
           InHand(t), workers' = [workers EXCEPT ![w] = t],
           DeliveryInHand(t), w = SchedulerProcess => DueInHand(t),
           attempts' = attempts,
           \A p \in PostIds : Exists(p)' /\ posts'[p].status = "sent" =>
              posts[p].status = "sent" \/ Delivered(p)
    PROVE  DeliveryInv'
  <1>1. DeliveryInHand(t)'
    BY HandKept
  <1>2. w = SchedulerProcess => DueInHand(t)'
    BY DueKept
  <1> QED BY <1>1, <1>2, RowsStayDelivered, PostsStayDelivered, WorkerMoves

LEMMA IdleInHand == DeliveryInHand(Idle) /\ DueInHand(Idle)
  BY DEF Idle, DeliveryInHand, DueInHand

\* The delete of send-and-delete is reached only without an error.
LEMMA DoneInHand ==
    ASSUME NEW s \in Worker, NEW failed \in BOOLEAN, DeliveryInHand(s),
           s.deleteAfter /\ ~failed /\ Exists(s.post.id) => Delivered(s.post.id)
    PROVE  /\ DeliveryInHand(Done(s, failed))
           /\ DueInHand(s) => DueInHand(Done(s, failed))
  <1>1. s.deleteAfter => s.force
    BY DEF DeliveryInHand
  <1>2. CASE s.batch # {}
    <2>1. PICK t : t = [Idle EXCEPT !.pc = "due", !.batch = s.batch]
      OBVIOUS
    <2>2. Done(s, failed) = t
      BY <1>2, <2>1 DEF Done
    <2>3. t.pc = "due" /\ t.batch = s.batch /\ t.force = FALSE /\ t.deleteAfter = FALSE
      BY <2>1 DEF Idle
    <2>4. DeliveryInHand(t)
      BY <2>3 DEF DeliveryInHand
    <2>5. DueInHand(s) => DueInHand(t)
      BY <2>3 DEF DueInHand
    <2> QED BY <2>2, <2>4, <2>5
  <1>3. CASE s.batch = {} /\ s.deleteAfter /\ ~failed
    <2>1. PICK t : t = [Idle EXCEPT !.pc = "delete", !.post = s.post, !.force = TRUE,
                                    !.deleteAfter = TRUE, !.eligible = s.eligible]
      OBVIOUS
    <2>2. Done(s, failed) = t
      BY <1>3, <2>1 DEF Done
    <2>3. t.pc = "delete" /\ t.post = s.post /\ t.force = TRUE
      BY <2>1 DEF Idle
    <2>4. DeliveryInHand(t)
      BY <1>3, <2>3 DEF DeliveryInHand, InLoop
    <2>5. ~DueInHand(s)
      BY <1>1, <1>3 DEF DueInHand
    <2> QED BY <2>2, <2>4, <2>5
  <1>4. CASE s.batch = {} /\ ~(s.deleteAfter /\ ~failed)
    BY <1>4, IdleInHand DEF Done
  <1> QED BY <1>2, <1>3, <1>4

LEMMA RunDueDelivery ==
    ASSUME TypeInv, TypeInv', DeliveryInv, Grows, NEW w \in Workers, RunDue(w)
    PROVE  DeliveryInv'
  <1>1. PICK due \in SUBSET DuePosts(now) :
           workers' = [workers EXCEPT ![w] =
               [Idle EXCEPT !.pc = "due", !.batch = {SnapshotOf(p) : p \in due}]]
    BY DEF RunDue
  <1>2. PICK batch : batch = {SnapshotOf(p) : p \in due}
    OBVIOUS
  <1>3. PICK t : t = [Idle EXCEPT !.pc = "due", !.batch = batch]
    OBVIOUS
  <1>4. workers' = [workers EXCEPT ![w] = t]
    BY <1>1, <1>2, <1>3
  <1>5. t \in Worker /\ InHand(t)
    BY <1>4 DEF TypeInv, TypeOK
  <1>6. t.pc = "due" /\ t.batch = batch /\ t.force = FALSE /\ t.deleteAfter = FALSE
    BY <1>3 DEF Idle
  <1>7. DeliveryInHand(t)
    BY <1>6 DEF DeliveryInHand
  <1>8. DueInHand(t)
    <2>1. \A x \in batch : x.scheduledAt = posts[x.id].scheduledAt
      BY <1>2 DEF SnapshotOf
    <2> QED BY <1>6, <2>1 DEF DueInHand
  <1> QED BY <1>4, <1>5, <1>7, <1>8, LocalMove DEF RunDue, storeVars

LEMMA NextDuePostDelivery ==
    ASSUME TypeInv, TypeInv', DeliveryInv, Grows, NEW w \in Workers, NextDuePost(w)
    PROVE  DeliveryInv'
  <1>1. PICK s \in Worker : s = workers[w]
    BY DEF TypeInv, TypeOK
  <1>2. PICK x \in s.batch :
           workers' = [workers EXCEPT ![w] =
               [Idle EXCEPT !.pc = "load", !.post = x, !.batch = s.batch \ {x}]]
    BY <1>1 DEF NextDuePost
  <1>3. PICK t : t = [Idle EXCEPT !.pc = "load", !.post = x, !.batch = s.batch \ {x}]
    OBVIOUS
  <1>4. workers' = [workers EXCEPT ![w] = t]
    BY <1>2, <1>3
  <1>5. t \in Worker /\ InHand(t)
    BY <1>4 DEF TypeInv, TypeOK
  <1>6. /\ t.pc = "load" /\ t.batch = s.batch \ {x} /\ t.post = x
        /\ t.force = FALSE /\ t.deleteAfter = FALSE
    BY <1>3 DEF Idle
  <1>7. DeliveryInHand(t)
    BY <1>6 DEF DeliveryInHand, InLoop
  <1>8. w = SchedulerProcess => DueInHand(t)
    BY <1>1, <1>6 DEF DueInHand, DeliveryInv
  <1> QED BY <1>4, <1>5, <1>7, <1>8, LocalMove DEF NextDuePost, storeVars

LEMMA SendNowDelivery ==
    ASSUME TypeInv, TypeInv', DeliveryInv, Grows, NEW w \in Workers,
           NEW p \in PostIds, NEW del \in BOOLEAN, SendNow(w, p, del)
    PROVE  DeliveryInv'
  <1>1. PICK t : t = [Idle EXCEPT !.pc = "load", !.post = SnapshotOf(p), !.force = TRUE,
                                  !.deleteAfter = del]
    OBVIOUS
  <1>2. workers' = [workers EXCEPT ![w] = t]
    BY <1>1 DEF SendNow
  <1>3. t \in Worker /\ InHand(t)
    BY <1>2 DEF TypeInv, TypeOK
  <1>4. t.pc = "load" /\ t.force = TRUE
    BY <1>1 DEF Idle
  <1>5. DeliveryInHand(t)
    BY <1>4 DEF DeliveryInHand, InLoop
  <1> QED BY <1>2, <1>3, <1>5, LocalMove DEF SendNow, storeVars

LEMMA FaultsDelivery ==
    ASSUME TypeInv, TypeInv', DeliveryInv, Grows, NEW w \in Workers,
           Crash(w) \/ StatementFails(w)
    PROVE  DeliveryInv'
  <1>1. PICK s \in Worker : s = workers[w]
    BY DEF TypeInv, TypeOK
  <1>2. PICK t : /\ workers' = [workers EXCEPT ![w] = t]
                 /\ \/ t = Idle
                    \/ s.pc \in {"limit", "insert"} /\ t = NextChannel(s, TRUE)
                    \/ t = Done(s, TRUE)
    BY <1>1 DEF Crash, StatementFails
  <1>3. t \in Worker /\ InHand(t)
    BY <1>2 DEF TypeInv, TypeOK
  <1>4. DeliveryInHand(s) /\ (w = SchedulerProcess => DueInHand(s))
    BY <1>1 DEF DeliveryInv
  <1>5. DeliveryInHand(t) /\ (DueInHand(s) => DueInHand(t))
    <2>1. CASE t = Idle
      BY <2>1, IdleInHand
    <2>2. CASE s.pc \in {"limit", "insert"} /\ t = NextChannel(s, TRUE)
      <3>1. /\ t.pc = "channels" /\ t.post = s.post /\ t.force = s.force
            /\ t.deleteAfter = s.deleteAfter /\ t.eligible = s.eligible
            /\ t.batch = s.batch /\ t.err = TRUE
        BY <2>2 DEF NextChannel, Worker
      <3>2. DeliveryInHand(t)
        BY <1>4, <2>2, <3>1 DEF DeliveryInHand, InLoop
      <3>3. DueInHand(s) => DueInHand(t)
        BY <2>2, <3>1 DEF DueInHand
      <3> QED BY <3>2, <3>3
    <2>3. CASE t = Done(s, TRUE)
      BY <1>4, <2>3, DoneInHand
    <2> QED BY <1>2, <2>1, <2>2, <2>3
  <1> QED BY <1>2, <1>3, <1>4, <1>5, LocalMove DEF Crash, StatementFails, storeVars

LEMMA LoadChannelsDelivery ==
    ASSUME TypeInv, TypeInv', DeliveryInv, Grows, NEW w \in Workers, LoadChannels(w)
    PROVE  DeliveryInv'
  <1>1. PICK s \in Worker : s = workers[w]
    BY DEF TypeInv, TypeOK
  <1> DEFINE p == s.post.id
  <1>2. PICK v : v = [status |-> "failed", failCount |-> s.post.failCount + 1,
                      nextRetryAt |-> Null]
    OBVIOUS
  <1>3. PICK t :
           /\ workers' = [workers EXCEPT ![w] = t]
           /\ \/ /\ postChannels[p] = {}
                 /\ t = [s EXCEPT !.pc = "legacy", !.at = now]
              \/ t = [s EXCEPT !.pc = "store", !.at = now, !.err = TRUE, !.verdict = v]
              \/ /\ Eligible(p) # {}
                 /\ t = [s EXCEPT !.pc = "channels", !.at = now,
                                  !.eligible = Eligible(p), !.todo = Eligible(p)]
    BY <1>1, <1>2 DEF LoadChannels, Eligible
  <1>4. t \in Worker /\ InHand(t)
    BY <1>3 DEF TypeInv, TypeOK
  <1>5. s.pc = "load" /\ DeliveryInHand(s) /\ (w = SchedulerProcess => DueInHand(s))
    BY <1>1 DEF DeliveryInv, LoadChannels
  <1>6. v.status = "failed"
    BY <1>2
  <1> HIDE DEF p
  <1>7. /\ t.post = s.post /\ t.force = s.force /\ t.deleteAfter = s.deleteAfter
        /\ t.batch = s.batch
        /\ \/ t.pc = "legacy" /\ postChannels[p] = {}
           \/ t.pc = "store" /\ t.err = TRUE /\ t.verdict = v
           \/ /\ t.pc = "channels" /\ Eligible(p) # {}
              /\ t.eligible = Eligible(p) /\ t.todo = Eligible(p)
    BY <1>3 DEF Worker
  <1>8. DeliveryInHand(t)
    <2>1. CASE t.pc = "legacy" /\ postChannels[p] = {}
      BY <1>5, <1>7, <2>1 DEF DeliveryInHand, InLoop, p
    <2>2. CASE t.pc = "store" /\ t.err = TRUE /\ t.verdict = v
      BY <1>5, <1>6, <1>7, <2>2 DEF DeliveryInHand, InLoop
    <2>3. CASE /\ t.pc = "channels" /\ Eligible(p) # {}
               /\ t.eligible = Eligible(p) /\ t.todo = Eligible(p)
      BY <1>5, <1>7, <2>3 DEF DeliveryInHand, InLoop, p
    <2> QED BY <1>7, <2>1, <2>2, <2>3
  <1>9. DueInHand(s) => DueInHand(t)
    BY <1>5, <1>7 DEF DueInHand
  <1> QED BY <1>3, <1>4, <1>5, <1>8, <1>9, LocalMove DEF LoadChannels, storeVars

\* A channel is skipped by a forced request only because its post was sent.
LEMMA SkippedWasSent ==
    ASSUME NEW s \in Worker, NEW c, s.force, ~ShouldAttempt(s, c)
    PROVE  HasSentRow(s.post.id, c)
  BY DEF ShouldAttempt, HasSentRow, AttemptsOf

\* The scheduler attempts only what is due.
LEMMA AttemptedIsDue ==
    ASSUME TypeInv, NEW s \in Worker, NEW c \in ChannelIds, ~s.force,
           ShouldAttempt(s, c),
           NEW n \in {1} \cup {r.no + 1 : r \in AttemptsOf(s.post.id, c)},
           \A r \in AttemptsOf(s.post.id, c) : r.no < n
    PROVE  IF n = 1 THEN s.post.scheduledAt <= s.at
           ELSE \E r \in attempts : /\ r.post = s.post.id
                                    /\ r.channel = c
                                    /\ r.no = n - 1
                                    /\ r.status = "retry"
                                    /\ r.retryAt <= s.at
  <1>1. \A r \in AttemptsOf(s.post.id, c) : r \in attempts /\ r.no \in Nat \ {0}
    BY DEF AttemptsOf, TypeInv, TypeOK, StoreTypeOK, AttemptRow
  <1>2. CASE n = 1
    <2>1. AttemptsOf(s.post.id, c) = {}
      BY <1>1, <1>2
    <2> QED BY <1>2, <2>1 DEF ShouldAttempt
  <1>3. CASE n # 1
    <2>1. PICK r \in AttemptsOf(s.post.id, c) : n = r.no + 1
      BY <1>3
    <2>2. \A q \in AttemptsOf(s.post.id, c) : q.no <= r.no
      BY <1>1, <2>1
    <2>3. IsLatest(r)
      BY <2>1, <2>2 DEF IsLatest, SameTarget, AttemptsOf
    <2>4. r.status = "retry" /\ r.retryAt <= s.at
      BY <2>1, <2>3 DEF ShouldAttempt
    <2>5. r.no = n - 1
      BY <1>1, <2>1
    <2> QED BY <1>3, <2>1, <2>4, <2>5 DEF AttemptsOf
  <1> QED BY <1>2, <1>3

LEMMA GetLatestDelivery ==
    ASSUME TypeInv, TypeInv', DeliveryInv, Grows, NEW w \in Workers, GetLatest(w)
    PROVE  DeliveryInv'
  <1>1. PICK s \in Worker : s = workers[w]
    BY DEF TypeInv, TypeOK
  <1>2. PICK c \in s.todo :
           \/ /\ ~ShouldAttempt(s, c)
              /\ workers' = [workers EXCEPT ![w] = [s EXCEPT !.todo = @ \ {c}]]
           \/ /\ ShouldAttempt(s, c)
              /\ \E n \in {1} \cup {r.no + 1 : r \in AttemptsOf(s.post.id, c)} :
                    /\ \A r \in AttemptsOf(s.post.id, c) : r.no < n
                    /\ workers' = [workers EXCEPT ![w] =
                          [s EXCEPT !.pc = "limit", !.todo = @ \ {c},
                                    !.channel = c, !.no = n]]
    BY <1>1 DEF GetLatest
  <1>3. c \in ChannelIds
    BY DEF Worker
  <1>4. s.pc = "channels" /\ DeliveryInHand(s) /\ (w = SchedulerProcess => DueInHand(s))
    BY <1>1 DEF DeliveryInv, GetLatest
  <1>5. CASE /\ ~ShouldAttempt(s, c)
             /\ workers' = [workers EXCEPT ![w] = [s EXCEPT !.todo = @ \ {c}]]
    <2>1. PICK t : t = [s EXCEPT !.todo = @ \ {c}]
      OBVIOUS
    <2>2. workers' = [workers EXCEPT ![w] = t]
      BY <1>5, <2>1
    <2>3. t \in Worker /\ InHand(t)
      BY <2>2 DEF TypeInv, TypeOK
    <2>4. /\ t.pc = "channels" /\ t.post = s.post /\ t.force = s.force
          /\ t.deleteAfter = s.deleteAfter /\ t.batch = s.batch /\ t.err = s.err
          /\ t.eligible = s.eligible /\ t.todo = s.todo \ {c}
      BY <1>4, <2>1 DEF Worker
    <2>5. s.force => HasSentRow(s.post.id, c)
      BY <1>5, SkippedWasSent
    <2>6. DeliveryInHand(t)
      BY <1>4, <2>4, <2>5 DEF DeliveryInHand, InLoop
    <2>7. DueInHand(s) => DueInHand(t)
      BY <1>4, <2>4 DEF DueInHand
    <2> QED BY <1>4, <2>2, <2>3, <2>6, <2>7, LocalMove DEF GetLatest, storeVars
  <1>6. ASSUME ShouldAttempt(s, c),
               NEW n \in {1} \cup {r.no + 1 : r \in AttemptsOf(s.post.id, c)},
               \A r \in AttemptsOf(s.post.id, c) : r.no < n,
               workers' = [workers EXCEPT ![w] =
                  [s EXCEPT !.pc = "limit", !.todo = @ \ {c}, !.channel = c, !.no = n]]
        PROVE  DeliveryInv'
    <2>1. PICK t : t = [s EXCEPT !.pc = "limit", !.todo = @ \ {c}, !.channel = c, !.no = n]
      OBVIOUS
    <2>2. workers' = [workers EXCEPT ![w] = t]
      BY <1>6, <2>1
    <2>3. t \in Worker /\ InHand(t)
      BY <2>2 DEF TypeInv, TypeOK
    <2>4. /\ t.pc = "limit" /\ t.post = s.post /\ t.force = s.force /\ t.at = s.at
          /\ t.deleteAfter = s.deleteAfter /\ t.batch = s.batch /\ t.err = s.err
          /\ t.eligible = s.eligible /\ t.todo = s.todo \ {c}
          /\ t.channel = c /\ t.no = n
      BY <2>1 DEF Worker
    <2>5. DeliveryInHand(t)
      BY <1>4, <2>4 DEF DeliveryInHand, InLoop
    <2>6. ASSUME DueInHand(s) PROVE DueInHand(t)
      <3>1. ~s.force
        BY <2>6 DEF DueInHand
      <3>2. IF n = 1 THEN s.post.scheduledAt <= s.at
            ELSE \E r \in attempts : /\ r.post = s.post.id
                                     /\ r.channel = c
                                     /\ r.no = n - 1
                                     /\ r.status = "retry"
                                     /\ r.retryAt <= s.at
        BY <1>3, <1>6, <3>1, AttemptedIsDue
      <3> QED BY <1>4, <2>4, <2>6, <3>2 DEF DueInHand
    <2> QED BY <1>4, <2>2, <2>3, <2>5, <2>6, LocalMove DEF GetLatest, storeVars
  <1> QED BY <1>2, <1>5, <1>6

LEMMA CheckDailyLimitDelivery ==
    ASSUME TypeInv, TypeInv', DeliveryInv, Grows, NEW w \in Workers, CheckDailyLimit(w)
    PROVE  DeliveryInv'
  <1>1. PICK s \in Worker : s = workers[w]
    BY DEF TypeInv, TypeOK
  <1>2. PICK result : result = [status |-> "retry", retryAt |-> DayEnd(s.at)]
    OBVIOUS
  <1>3. PICK t : /\ workers' = [workers EXCEPT ![w] = t]
                 /\ \/ t = [s EXCEPT !.pc = "insert", !.result = result]
                    \/ t = [s EXCEPT !.pc = "publish"]
    BY <1>1, <1>2 DEF CheckDailyLimit
  <1>4. t \in Worker /\ InHand(t)
    BY <1>3 DEF TypeInv, TypeOK
  <1>5. s.pc = "limit" /\ DeliveryInHand(s) /\ (w = SchedulerProcess => DueInHand(s))
    BY <1>1 DEF DeliveryInv, CheckDailyLimit
  <1>6. result.status = "retry"
    BY <1>2
  <1>7. /\ t.post = s.post /\ t.force = s.force /\ t.at = s.at /\ t.channel = s.channel
        /\ t.deleteAfter = s.deleteAfter /\ t.batch = s.batch /\ t.err = s.err
        /\ t.eligible = s.eligible /\ t.todo = s.todo /\ t.no = s.no
        /\ t.pc = "publish" \/ (t.pc = "insert" /\ t.result = result)
    BY <1>3 DEF Worker
  <1>8. DeliveryInHand(t)
    BY <1>5, <1>6, <1>7 DEF DeliveryInHand, InLoop
  <1>9. DueInHand(s) => DueInHand(t)
    BY <1>5, <1>7 DEF DueInHand
  <1> QED BY <1>3, <1>4, <1>5, <1>8, <1>9, LocalMove DEF CheckDailyLimit, storeVars

\* A sent row for each enabled channel is a delivery.
LEMMA RowsDeliver ==
    ASSUME SentRowsWereDelivered, NEW p \in PostIds, Eligible(p) # {},
           \A c \in Eligible(p) : HasSentRow(p, c)
    PROVE  Delivered(p)
  <1>1. postChannels[p] # {}
    BY DEF Eligible
  <1>2. ASSUME NEW c \in Eligible(p)
        PROVE  published[p][c] > 0 /\ \E r \in AttemptsOf(p, c) : r.status = "sent"
    <2>1. PICK r \in AttemptsOf(p, c) : r.status = "sent"
      BY DEF HasSentRow
    <2> QED BY <2>1 DEF SentRowsWereDelivered, AttemptsOf
  <1> QED BY <1>1, <1>2 DEF Delivered

\* reconcilePostStateFromChannels answers `sent' only when the latest attempt of
\* every enabled channel is a sent one.
LEMMA SentVerdict ==
    ASSUME TypeInv, SentRowsWereDelivered, NEW s \in Worker, s.post.id \in PostIds,
           s.eligible = Eligible(s.post.id), s.eligible # {},
           NEW v \in VerdictOf(s), v.status = "sent"
    PROVE  Delivered(s.post.id)
  <1> DEFINE latest == {r \in attempts : /\ r.post = s.post.id
                                         /\ r.channel \in s.eligible
                                         /\ IsLatest(r)}
             retrying == {r \in latest : r.status = "retry"}
             failed == {r \in latest : r.status = "failed"}
             open == retrying # {} \/ \E c \in s.eligible : \A r \in latest : r.channel # c
  <1>1. CASE open
    <2>1. PICK t : v = [status |-> "scheduled",
                        failCount |-> Cardinality(retrying \cup failed),
                        nextRetryAt |-> t]
      BY <1>1 DEF VerdictOf
    <2> QED BY <2>1
  <1>2. CASE ~open /\ failed # {}
    <2>1. v.status = "failed"
      BY <1>2 DEF VerdictOf
    <2> QED BY <2>1
  <1>3. CASE ~open /\ failed = {}
    <2>1. ASSUME NEW c \in s.eligible PROVE HasSentRow(s.post.id, c)
      <3>1. PICK r \in latest : r.channel = c
        BY <1>3
      <3>2. r.status \in AttemptStatus
        BY DEF TypeInv, TypeOK, StoreTypeOK, AttemptRow
      <3>3. r.status = "sent"
        BY <1>3, <3>2 DEF AttemptStatus
      <3> QED BY <3>1, <3>3 DEF HasSentRow, AttemptsOf
    <2> QED BY <2>1, RowsDeliver
  <1> QED BY <1>1, <1>2, <1>3

LEMMA ReconcileDelivery ==
    ASSUME TypeInv, TypeInv', DeliveryInv, Grows, NEW w \in Workers, Reconcile(w)
    PROVE  DeliveryInv'
  <1>1. PICK s \in Worker : s = workers[w]
    BY DEF TypeInv, TypeOK
  <1>2. PICK v \in VerdictOf(s) :
           workers' = [workers EXCEPT ![w] = [s EXCEPT !.pc = "store", !.verdict = v]]
    BY <1>1 DEF Reconcile
  <1>3. PICK t : t = [s EXCEPT !.pc = "store", !.verdict = v]
    OBVIOUS
  <1>4. workers' = [workers EXCEPT ![w] = t]
    BY <1>2, <1>3
  <1>5. t \in Worker /\ InHand(t)
    BY <1>4 DEF TypeInv, TypeOK
  <1>6. /\ s.pc = "channels" /\ s.todo = {} /\ s.post.id \in PostIds
        /\ DeliveryInHand(s) /\ (w = SchedulerProcess => DueInHand(s))
    BY <1>1 DEF DeliveryInv, Reconcile, TypeInv, InHand, Snapshot
  <1>7. /\ t.pc = "store" /\ t.post = s.post /\ t.force = s.force
        /\ t.deleteAfter = s.deleteAfter /\ t.batch = s.batch /\ t.err = s.err
        /\ t.verdict = v
    BY <1>3 DEF Worker
  <1>8. ASSUME Exists(s.post.id), v.status = "sent" \/ (s.force /\ ~s.err)
        PROVE  Delivered(s.post.id)
    <2>1. s.eligible = Eligible(s.post.id) /\ s.eligible # {}
      BY <1>6, <1>8 DEF DeliveryInHand, InLoop
    <2>2. CASE v.status = "sent"
      BY <1>6, <2>1, <2>2, SentVerdict DEF DeliveryInv
    <2>3. CASE s.force /\ ~s.err
      <3>1. \A c \in s.eligible : HasSentRow(s.post.id, c)
        BY <1>6, <1>8, <2>3 DEF DeliveryInHand, InLoop
      <3> QED BY <1>6, <2>1, <3>1, RowsDeliver DEF DeliveryInv
    <2> QED BY <1>8, <2>2, <2>3
  <1>9. DeliveryInHand(t)
    BY <1>6, <1>7, <1>8 DEF DeliveryInHand, InLoop
  <1>10. DueInHand(s) => DueInHand(t)
    BY <1>6, <1>7 DEF DueInHand
  <1> QED BY <1>4, <1>5, <1>6, <1>9, <1>10, LocalMove DEF Reconcile, storeVars

\* The two statements that store `sent', and what processPost returns to.
LEMMA StoreDelivery ==
    ASSUME TypeInv, TypeInv', DeliveryInv, Grows, NEW w \in Workers,
           StorePostState(w) \/ LegacyMarkSent(w)
    PROVE  DeliveryInv'
  <1>1. PICK s \in Worker : s = workers[w]
    BY DEF TypeInv, TypeOK
  <1>2. /\ s.pc \in {"store", "mark"} /\ s.post.id \in PostIds
        /\ DeliveryInHand(s) /\ (w = SchedulerProcess => DueInHand(s))
    BY <1>1 DEF DeliveryInv, StorePostState, LegacyMarkSent, TypeInv, InHand, Snapshot
  <1>3. s.err \in BOOLEAN
    BY DEF Worker
  <1>4. PICK failed \in BOOLEAN :
           /\ failed = IF s.pc = "store" THEN s.err \/ ~Exists(s.post.id)
                       ELSE ~Exists(s.post.id)
           /\ workers' = [workers EXCEPT ![w] = Done(s, failed)]
    <2>1. CASE StorePostState(w)
      BY <1>1, <1>3, <2>1 DEF StorePostState
    <2>2. CASE LegacyMarkSent(w)
      BY <1>1, <2>2 DEF LegacyMarkSent
    <2> QED BY <2>1, <2>2
  <1>5. PICK t : t = Done(s, failed)
    OBVIOUS
  <1>6. t \in Worker /\ InHand(t)
    BY <1>4, <1>5 DEF TypeInv, TypeOK
  <1>7. ASSUME s.pc = "mark", Exists(s.post.id) PROVE Delivered(s.post.id)
    BY <1>2, <1>7 DEF DeliveryInHand, Delivered
  <1>8. ASSUME s.deleteAfter, ~failed, Exists(s.post.id) PROVE Delivered(s.post.id)
    <2>1. CASE s.pc = "store"
      <3>1. s.force /\ ~s.err
        BY <1>2, <1>4, <1>8, <2>1 DEF DeliveryInHand
      <3> QED BY <1>2, <1>8, <2>1, <3>1 DEF DeliveryInHand
    <2>2. CASE s.pc = "mark"
      BY <1>7, <1>8, <2>2
    <2> QED BY <1>2, <2>1, <2>2
  <1>9. DeliveryInHand(t) /\ (DueInHand(s) => DueInHand(t))
    BY <1>2, <1>5, <1>8, DoneInHand
  <1>10. ASSUME NEW p \in PostIds, Exists(p)', posts'[p].status = "sent"
         PROVE  posts[p].status = "sent" \/ Delivered(p)
    <2>1. posts \in [PostIds -> PostRow \cup {Null}]
      BY DEF TypeInv, TypeOK, StoreTypeOK
    <2>2. CASE p # s.post.id \/ ~Exists(s.post.id)
      <3>1. posts'[p] = posts[p]
        BY <1>1, <2>1, <2>2 DEF StorePostState, LegacyMarkSent, SetPostState, MarkSent
      <3> QED BY <1>10, <3>1
    <2>3. CASE p = s.post.id /\ Exists(p) /\ StorePostState(w)
      <3>1. posts[p] \in PostRow
        BY <2>1, <2>3 DEF Exists
      <3>2. PICK row : row = [posts[p] EXCEPT !.status = s.verdict.status,
                                 !.failCount = s.verdict.failCount,
                                 !.nextRetryAt = s.verdict.nextRetryAt]
        OBVIOUS
      <3>3. posts' = [posts EXCEPT ![p] = row]
        BY <1>1, <2>3, <3>2 DEF StorePostState, SetPostState
      <3>4. row.status = s.verdict.status
        BY <3>1, <3>2 DEF PostRow
      <3>5. posts'[p].status = s.verdict.status
        BY <2>1, <3>3, <3>4
      <3>6. s.pc = "store"
        BY <1>1, <2>3 DEF StorePostState
      <3> QED BY <1>2, <1>10, <2>3, <3>5, <3>6 DEF DeliveryInHand
    <2>4. CASE p = s.post.id /\ Exists(p) /\ LegacyMarkSent(w)
      <3>1. s.pc = "mark"
        BY <1>1, <2>4 DEF LegacyMarkSent
      <3> QED BY <1>7, <2>4, <3>1
    <2> QED BY <2>2, <2>3, <2>4
  <1>11. attempts' = attempts
    BY DEF StorePostState, LegacyMarkSent
  <1>12. workers' = [workers EXCEPT ![w] = t]
    BY <1>4, <1>5
  <1> QED BY <1>2, <1>6, <1>9, <1>10, <1>11, <1>12, LocalMove

LEMMA ResultSent ==
    ASSUME NEW s, NEW o, ResultOf(s, o).status = "sent" PROVE o = "ok"
  <1>1. CASE o # "ok"
    <2>1. \E t : ResultOf(s, o) \in {[status |-> "failed", retryAt |-> Null],
                                     [status |-> "retry", retryAt |-> t]}
      BY <1>1 DEF ResultOf
    <2> QED BY <2>1
  <1> QED BY <1>1

LEMMA DeliveredOnce ==
    ASSUME TypeInv, NEW p \in PostIds, NEW t \in Targets, Deliver(p, t, "ok")
    PROVE  published'[p][t] > 0
  <1>1. published \in [PostIds -> [Targets -> Nat]]
    BY DEF TypeInv, TypeOK
  <1>2. PICK row : row = [published[p] EXCEPT ![t] = published[p][t] + 1]
    OBVIOUS
  <1>3. published' = [published EXCEPT ![p] = row]
    BY <1>2 DEF Deliver
  <1>4. row[t] = published[p][t] + 1
    BY <1>1, <1>2
  <1>5. published'[p][t] = published[p][t] + 1 /\ published[p][t] \in Nat
    BY <1>1, <1>3, <1>4
  <1> QED BY <1>5

LEMMA PublishDelivery ==
    ASSUME TypeInv, TypeInv', DeliveryInv, Grows, NEW w \in Workers, Publish(w)
    PROVE  DeliveryInv'
  <1>1. PICK s \in Worker : s = workers[w]
    BY DEF TypeInv, TypeOK
  <1>2. PICK o \in Outcomes :
           /\ Deliver(s.post.id, s.channel, o)
           /\ workers' = [workers EXCEPT ![w] =
                 [s EXCEPT !.pc = "insert", !.result = ResultOf(s, o)]]
    BY <1>1 DEF Publish
  <1>3. PICK t : t = [s EXCEPT !.pc = "insert", !.result = ResultOf(s, o)]
    OBVIOUS
  <1>4. workers' = [workers EXCEPT ![w] = t]
    BY <1>2, <1>3
  <1>5. /\ s.pc = "publish" /\ s.post.id \in PostIds /\ s.channel \in Targets
        /\ InHand(s) /\ DeliveryInHand(s) /\ (w = SchedulerProcess => DueInHand(s))
    BY <1>1 DEF DeliveryInv, Publish, TypeInv, InHand, Snapshot, Targets
  <1>6. DeliveryInHand(s)' /\ (w = SchedulerProcess => DueInHand(s)')
    BY <1>5, HandKept, DueKept
  <1>7. /\ t.post = s.post /\ t.force = s.force /\ t.at = s.at /\ t.channel = s.channel
        /\ t.deleteAfter = s.deleteAfter /\ t.batch = s.batch /\ t.err = s.err
        /\ t.eligible = s.eligible /\ t.todo = s.todo /\ t.no = s.no
        /\ t.pc = "insert" /\ t.result = ResultOf(s, o)
    BY <1>3 DEF Worker
  <1>8. t.result.status = "sent" => published'[t.post.id][t.channel] > 0
    BY <1>2, <1>5, <1>7, ResultSent, DeliveredOnce
  <1>9. DeliveryInHand(t)'
    BY <1>5, <1>6, <1>7, <1>8 DEF DeliveryInHand, InLoop
  <1>10. w = SchedulerProcess => DueInHand(t)'
    BY <1>5, <1>6, <1>7 DEF DueInHand
  <1>11. attempts' = attempts /\ posts' = posts
    BY DEF Publish, storeVars
  <1> QED BY <1>4, <1>9, <1>10, <1>11, RowsStayDelivered, PostsStayDelivered, WorkerMoves

LEMMA LegacyPublishDelivery ==
    ASSUME TypeInv, TypeInv', DeliveryInv, Grows, NEW w \in Workers, LegacyPublish(w)
    PROVE  DeliveryInv'
  <1>1. PICK s \in Worker : s = workers[w]
    BY DEF TypeInv, TypeOK
  <1> DEFINE Moved(o, t) ==
        \/ o = "ok" /\ t = [s EXCEPT !.pc = "mark"]
        \/ \E v : /\ v.status # "sent"
                  /\ t = [s EXCEPT !.pc = "store", !.err = TRUE, !.verdict = v]
  <1>0. PICK o \in Outcomes :
           /\ Deliver(s.post.id, Fallback, o)
           /\ \E t : workers' = [workers EXCEPT ![w] = t] /\ Moved(o, t)
    <2>1. PICK o \in Outcomes :
             LET retryAt == IF o = "permanent" THEN Null
                            ELSE ScheduleRetry(s.at, s.post.failCount + 1)
                 status == IF retryAt = Null THEN "failed" ELSE "scheduled"
             IN /\ Deliver(s.post.id, Fallback, o)
                /\ workers' = [workers EXCEPT ![w] =
                      IF o = "ok" THEN [s EXCEPT !.pc = "mark"]
                      ELSE [s EXCEPT !.pc = "store", !.err = TRUE,
                                     !.verdict = [status |-> status,
                                                  failCount |-> s.post.failCount + 1,
                                                  nextRetryAt |-> retryAt]]]
      BY <1>1 DEF LegacyPublish
    <2>2. CASE o = "ok"
      BY <2>1, <2>2
    <2>3. CASE o # "ok"
      <3> DEFINE retryAt == IF o = "permanent" THEN Null
                            ELSE ScheduleRetry(s.at, s.post.failCount + 1)
                 status == IF retryAt = Null THEN "failed" ELSE "scheduled"
                 v == [status |-> status, failCount |-> s.post.failCount + 1,
                       nextRetryAt |-> retryAt]
                 t == [s EXCEPT !.pc = "store", !.err = TRUE, !.verdict = v]
      <3>1. v.status # "sent"
        OBVIOUS
      <3>2. workers' = [workers EXCEPT ![w] = t]
        BY <2>1, <2>3
      <3> HIDE DEF v
      <3>3. Moved(o, t)
        BY <3>1
      <3> HIDE DEF t, Moved
      <3> QED BY <2>1, <3>2, <3>3
    <2> QED BY <2>2, <2>3
  <1>2. PICK t : workers' = [workers EXCEPT ![w] = t] /\ Moved(o, t)
    BY <1>0
  <1>3. /\ s.pc = "legacy" /\ s.post.id \in PostIds /\ Fallback \in Targets
        /\ InHand(s) /\ DeliveryInHand(s) /\ (w = SchedulerProcess => DueInHand(s))
    BY <1>1 DEF DeliveryInv, LegacyPublish, TypeInv, InHand, Snapshot, Targets
  <1>4. DeliveryInHand(s)' /\ (w = SchedulerProcess => DueInHand(s)')
    BY <1>3, HandKept, DueKept
  <1>5. /\ t.post = s.post /\ t.force = s.force
        /\ t.deleteAfter = s.deleteAfter /\ t.batch = s.batch
        /\ \/ o = "ok" /\ t.pc = "mark"
           \/ t.pc = "store" /\ t.err = TRUE /\ t.verdict.status # "sent"
    BY <1>2 DEF Worker
  <1>6. o = "ok" => published'[s.post.id][Fallback] > 0
    BY <1>0, <1>3, DeliveredOnce
  <1>7. DeliveryInHand(t)'
    <2>1. CASE o = "ok" /\ t.pc = "mark"
      BY <1>3, <1>4, <1>5, <1>6, <2>1 DEF DeliveryInHand, InLoop
    <2>2. CASE t.pc = "store" /\ t.err = TRUE /\ t.verdict.status # "sent"
      BY <1>3, <1>4, <1>5, <2>2 DEF DeliveryInHand, InLoop
    <2> QED BY <1>5, <2>1, <2>2
  <1>8. w = SchedulerProcess => DueInHand(t)'
    BY <1>3, <1>4, <1>5 DEF DueInHand
  <1>9. attempts' = attempts /\ posts' = posts
    BY DEF LegacyPublish, storeVars
  <1> QED BY <1>2, <1>7, <1>8, <1>9, RowsStayDelivered, PostsStayDelivered, WorkerMoves

LEMMA InsertAttemptDelivery ==
    ASSUME TypeInv, TypeInv', DeliveryInv, Grows, NEW w \in Workers, InsertAttempt(w)
    PROVE  DeliveryInv'
  <1>1. PICK s \in Worker : s = workers[w]
    BY DEF TypeInv, TypeOK
  <1>2. PICK row : row = RowOf(s)
    OBVIOUS
  <1>3. PICK failed \in BOOLEAN :
           /\ workers' = [workers EXCEPT ![w] = NextChannel(s, failed)]
           /\ ~failed => s.result.status = "sent" /\ CanInsertAttempt(row)
    BY <1>1, <1>2 DEF InsertAttempt
  <1>4. PICK t : t = NextChannel(s, failed)
    OBVIOUS
  <1>5. /\ workers' = [workers EXCEPT ![w] = t]
        /\ attempts' = IF CanInsertAttempt(row) THEN attempts \cup {row} ELSE attempts
        /\ posts' = posts /\ published' = published
    BY <1>1, <1>2, <1>3, <1>4 DEF InsertAttempt, InsertPublishAttempt
  <1>6. /\ s.pc = "insert" /\ s.post.id \in PostIds /\ s.channel \in ChannelIds
        /\ InHand(s) /\ DeliveryInHand(s) /\ (w = SchedulerProcess => DueInHand(s))
    BY <1>1 DEF DeliveryInv, InsertAttempt, TypeInv, InHand, Snapshot
  <1>7. DeliveryInHand(s)' /\ (w = SchedulerProcess => DueInHand(s)')
    BY <1>6, HandKept, DueKept
  <1>8. /\ t.post = s.post /\ t.force = s.force
        /\ t.deleteAfter = s.deleteAfter /\ t.batch = s.batch
        /\ t.eligible = s.eligible /\ t.todo = s.todo
        /\ t.pc = "channels" /\ t.err = (s.err \/ failed)
    BY <1>4 DEF Worker, NextChannel
  <1>9. row.post = s.post.id /\ row.channel = s.channel /\ row.status = s.result.status
    BY <1>2 DEF RowOf
  <1>10. ~failed => HasSentRow(s.post.id, s.channel)'
    BY <1>3, <1>5, <1>9 DEF HasSentRow, AttemptsOf
  <1>11. DeliveryInHand(t)'
    BY <1>6, <1>7, <1>8, <1>10 DEF DeliveryInHand, InLoop
  <1>12. w = SchedulerProcess => DueInHand(t)'
    BY <1>6, <1>7, <1>8 DEF DueInHand
  <1>13. SentRowsWereDelivered'
    <2> SUFFICES ASSUME NEW r \in attempts', r.status = "sent"
                 PROVE  published[r.post][r.channel] > 0
      BY <1>5 DEF SentRowsWereDelivered
    <2>1. CASE r \in attempts
      BY <2>1 DEF DeliveryInv, SentRowsWereDelivered
    <2>2. CASE r = row /\ CanInsertAttempt(row)
      <3>1. Exists(s.post.id)
        BY <1>9, <2>2 DEF CanInsertAttempt
      <3> QED BY <1>6, <1>9, <2>2, <3>1 DEF DeliveryInHand
    <2> QED BY <1>5, <2>1, <2>2
  <1> QED BY <1>5, <1>11, <1>12, <1>13, PostsStayDelivered, WorkerMoves

LEMMA DeleteAfterSendDelivery ==
    ASSUME TypeInv, TypeInv', DeliveryInv, Grows, NEW w \in Workers, DeleteAfterSend(w)
    PROVE  DeliveryInv'
  <1>1. PICK t : t = Idle
    OBVIOUS
  <1>2. workers' = [workers EXCEPT ![w] = t] /\ published' = published
    BY <1>1 DEF DeleteAfterSend
  <1>3. DeliveryInHand(t)' /\ DueInHand(t)'
    BY <1>1 DEF Idle, DeliveryInHand, DueInHand
  <1>4. attempts' \subseteq attempts
    BY DEF DeleteAfterSend, DeletePost
  <1>5. SentRowsWereDelivered'
    BY <1>2, <1>4 DEF DeliveryInv, SentRowsWereDelivered
  <1>6. \A p \in PostIds : Exists(p)' => posts'[p] = posts[p]
    BY DEF DeleteAfterSend, DeletePost, Exists, TypeInv, TypeOK, StoreTypeOK
  <1> QED BY <1>2, <1>3, <1>5, <1>6, PostsStayDelivered, WorkerMoves

LEMMA InitDelivery == Init => DeliveryInv
  <1> SUFFICES ASSUME Init PROVE DeliveryInv
    OBVIOUS
  <1>1. \A w \in Workers : workers[w] = Idle
    BY DEF Init
  <1>2. DeliveryInHand(Idle) /\ DueInHand(Idle)
    BY IdleInHand
  <1>3. \A w \in Workers : DeliveryInHand(workers[w])
    BY <1>1, <1>2 DEF DeliveryInHand
  <1>4. DueInHand(workers[SchedulerProcess])
    BY <1>1, <1>2, WorkersAssumption DEF DueInHand
  <1>5. \A p \in PostIds : posts[p].status = "scheduled"
    BY DEF Init
  <1> QED BY <1>3, <1>4, <1>5
          DEF Init, DeliveryInv, SentRowsWereDelivered, SentPostWasDelivered

LEMMA NextDelivery == TypeInv /\ TypeInv' /\ DeliveryInv /\ [Next]_vars => DeliveryInv'
  <1> SUFFICES ASSUME TypeInv, TypeInv', DeliveryInv, [Next]_vars PROVE DeliveryInv'
    OBVIOUS
  <1>1. Grows
    BY NextGrows
  <1>2. CASE Tick \/ UNCHANGED vars
    <2>1. /\ attempts' = attempts /\ posts' = posts /\ workers' = workers
          /\ workers \in [Workers -> Worker] /\ SchedulerProcess \in Workers
      BY <1>2, WorkersAssumption DEF Tick, vars, storeVars, TypeInv, TypeOK
    <2>2. PICK t : t = workers[SchedulerProcess]
      OBVIOUS
    <2>3. workers' = [workers EXCEPT ![SchedulerProcess] = t]
      BY <2>1, <2>2
    <2>4. t \in Worker /\ InHand(t) /\ DeliveryInHand(t) /\ DueInHand(t)
      BY <2>1, <2>2 DEF TypeInv, DeliveryInv
    <2> QED BY <1>1, <2>1, <2>3, <2>4, LocalMove
  <1>3. ASSUME NEW w \in Workers, Process(w) PROVE DeliveryInv'
    BY <1>1, <1>3, NextDuePostDelivery, LoadChannelsDelivery, GetLatestDelivery,
       CheckDailyLimitDelivery, PublishDelivery, InsertAttemptDelivery,
       ReconcileDelivery, StoreDelivery, LegacyPublishDelivery,
       DeleteAfterSendDelivery DEF Process
  <1>4. ASSUME NEW w \in Workers, NEW p \in PostIds, Send(w, p) PROVE DeliveryInv'
    BY <1>1, <1>4, SendIsSendNow, SendNowDelivery
  <1> QED BY <1>1, <1>2, <1>3, <1>4, RunDueDelivery, FaultsDelivery DEF Next

\* What each worker of the publishing service relies on is true whenever it moves:
\* its channels, the deliveries behind it, and why its attempt is due.
THEOREM DeliveryCorrect == Spec => [](IInv /\ DeliveryInv)
  <1>1. Init => DeliveryInv
    BY InitDelivery
  <1>2. IInv /\ IInv' /\ DeliveryInv /\ [Next]_vars => DeliveryInv'
    BY NextDelivery DEF IInv
  <1> QED BY <1>1, <1>2, LogCorrect, PTL DEF Spec

\* However many requests, crashes and failing statements interleave, a post is
\* marked as sent only when every enabled channel of it, or the fallback, got it.
THEOREM SentPostCorrect == Spec => []SentPostWasDelivered
  <1>1. IInv /\ DeliveryInv => SentPostWasDelivered
    BY DEF DeliveryInv
  <1> QED BY <1>1, DeliveryCorrect, PTL

-------------------------------------------------------------------------------
(***************************************************************************)
(* What each step does to the set of posts and to the log.                 *)
(***************************************************************************)
LEMMA StepsOnTables ==
    ASSUME TypeInv, [Next]_vars
    PROVE  \/ attempts' = attempts /\ \A p \in PostIds : Exists(p)' = Exists(p)
           \/ \E w \in Workers : InsertAttempt(w) \/ DeleteAfterSend(w)
  <1>1. CASE Tick \/ UNCHANGED vars
    BY <1>1 DEF Tick, vars, storeVars, Exists
  <1>2. ASSUME NEW w \in Workers,
               \/ RunDue(w) \/ NextDuePost(w) \/ LoadChannels(w) \/ GetLatest(w)
               \/ CheckDailyLimit(w) \/ Publish(w) \/ Reconcile(w) \/ LegacyPublish(w)
               \/ Crash(w) \/ StatementFails(w)
               \/ \E p \in PostIds, del \in BOOLEAN : SendNow(w, p, del)
        PROVE  attempts' = attempts /\ posts' = posts
    BY <1>2 DEF storeVars, RunDue, NextDuePost, LoadChannels, GetLatest,
       CheckDailyLimit, Publish, Reconcile, LegacyPublish, Crash, StatementFails,
       SendNow
  <1>3. ASSUME NEW w \in Workers, StorePostState(w) \/ LegacyMarkSent(w)
        PROVE  attempts' = attempts /\ \A p \in PostIds : Exists(p)' = Exists(p)
    <2>1. workers[w].post.id \in PostIds /\ (StorePostState(w) => workers[w].verdict \in Verdict)
      BY <1>3 DEF StorePostState, LegacyMarkSent, TypeInv, TypeOK, InHand, Snapshot
    <2>2. CASE StorePostState(w)
      BY <2>1, <2>2, SetPostStateType DEF StorePostState, TypeInv, TypeOK
    <2>3. CASE LegacyMarkSent(w)
      BY <2>1, <2>3, MarkSentType DEF LegacyMarkSent, TypeInv, TypeOK
    <2> QED BY <1>3, <2>2, <2>3
  <1>4. ASSUME NEW w \in Workers, NEW p \in PostIds, Send(w, p)
        PROVE  attempts' = attempts /\ posts' = posts
    BY <1>2, <1>4, SendIsSendNow
  <1> QED BY <1>1, <1>2, <1>3, <1>4 DEF Next, Process, Exists

LEMMA NextDeletes ==
    ASSUME TypeInv, DeliveryInv, [Next]_vars, NEW p \in PostIds, Exists(p), ~Exists(p)'
    PROVE  Delivered(p)
  <1>1. PICK w \in Workers : InsertAttempt(w) \/ DeleteAfterSend(w)
    BY StepsOnTables
  <1>2. DeleteAfterSend(w)
    BY <1>1 DEF InsertAttempt, Exists
  <1>3. p = workers[w].post.id
    BY <1>2 DEF DeleteAfterSend, DeletePost, Exists, TypeInv, TypeOK, StoreTypeOK
  <1>4. workers[w].pc = "delete" /\ DeliveryInHand(workers[w])
    BY <1>2 DEF DeleteAfterSend, DeliveryInv
  <1> QED BY <1>3, <1>4 DEF DeliveryInHand

\* Send-and-delete never deletes a post some channel of which has not got it.
THEOREM DeletesCorrect == Spec => OnlyDeliveredPostsAreDeleted
  <1>1. IInv /\ DeliveryInv /\ [Next]_vars =>
           [\A p \in PostIds : Exists(p) /\ ~Exists(p)' => Delivered(p)]_vars
    BY NextDeletes DEF IInv
  <1> QED BY <1>1, DeliveryCorrect, PTL DEF Spec, OnlyDeliveredPostsAreDeleted

Due(r) ==
    IF r.no = 1
    THEN posts[r.post].scheduledAt <= r.at
    ELSE \E s \in attempts : /\ SameTarget(r, s)
                             /\ s.no = r.no - 1
                             /\ s.status = "retry"
                             /\ s.retryAt <= r.at

LEMMA NextIsDue ==
    ASSUME TypeInv, DeliveryInv, [Next]_vars, NEW r \in attempts' \ attempts,
           workers'[SchedulerProcess] # workers[SchedulerProcess]
    PROVE  Due(r)
  <1>1. PICK w \in Workers : InsertAttempt(w) \/ DeleteAfterSend(w)
    BY StepsOnTables
  <1>2. InsertAttempt(w)
    BY <1>1 DEF DeleteAfterSend, DeletePost
  <1>3. w = SchedulerProcess
    BY <1>2, WorkersAssumption DEF InsertAttempt, TypeInv, TypeOK
  <1>4. PICK s \in Worker : s = workers[w]
    BY DEF TypeInv, TypeOK
  <1>5. r = RowOf(s) /\ CanInsertAttempt(r) /\ s.pc = "insert"
    BY <1>2, <1>4 DEF InsertAttempt, InsertPublishAttempt
  <1>6. r.post = s.post.id /\ r.channel = s.channel /\ r.no = s.no /\ r.at = s.at
    BY <1>5 DEF RowOf
  <1>7. Exists(s.post.id)
    BY <1>5, <1>6 DEF CanInsertAttempt
  <1>8. DueInHand(s)
    BY <1>3, <1>4 DEF DeliveryInv
  <1> QED BY <1>5, <1>6, <1>7, <1>8 DEF DueInHand, Due, SameTarget

\* Whatever happens to its batch meanwhile, the scheduler process attempts a post
\* only from its moment on, and a channel again only from its retry on.
THEOREM DueCorrect == Spec => PublishedWhenDue
  <1>1. IInv /\ DeliveryInv /\ [Next]_vars =>
           [\A r \in attempts' \ attempts :
               workers'[SchedulerProcess] # workers[SchedulerProcess] => Due(r)]_vars
    BY NextIsDue DEF IInv
  <1> QED BY <1>1, DeliveryCorrect, PTL DEF Spec, PublishedWhenDue, Due

-------------------------------------------------------------------------------
(***************************************************************************)
(* The table of attempts is a DeliveryLog.                                 *)
(***************************************************************************)
Alive == {p \in PostIds : Exists(p)}

EntryOf(r) == [post |-> r.post, channel |-> r.channel, no |-> r.no, status |-> r.status]

Entries == {EntryOf(r) : r \in attempts}

\* A row that is stored is the next entry of a list that is not closed.
LEMMA InsertAppends ==
    ASSUME TypeInv, LogInv, NEW w \in Workers, InsertAttempt(w),
           CanInsertAttempt(RowOf(workers[w]))
    PROVE  Log!Next
  <1>1. PICK row : row = RowOf(workers[w])
    OBVIOUS
  <1>2. /\ row.no \in Nat \ {0}
        /\ \/ row.no = 1
           \/ \E r \in attempts : SameTarget(r, row) /\ r.no = row.no - 1
        /\ \A r \in attempts : SameTarget(r, row) => r.no < row.no /\ r.status # "sent"
    BY <1>1, InsertFollowsLog
  <1>3. attempts' = attempts \cup {row} /\ posts' = posts /\ Exists(row.post)
    BY <1>1 DEF InsertAttempt, InsertPublishAttempt, CanInsertAttempt
  <1>4. row \in attempts' /\ attempts' \subseteq AttemptRow /\ attempts \subseteq AttemptRow
    <2>1. TypeInv'
      BY InsertAttemptType
    <2> QED BY <1>3, <2>1 DEF TypeInv, TypeOK, StoreTypeOK
  <1>5. row.post \in PostIds /\ row.channel \in ChannelIds /\ row.status \in AttemptStatus
    BY <1>4 DEF AttemptRow
  <1>6. Entries' = Entries \cup {EntryOf(row)} /\ Alive' = Alive
    BY <1>3 DEF Entries, EntryOf, Alive, Exists
  <1>7. \A e \in Log!Entries(row.post, row.channel) :
           \E r \in attempts : SameTarget(r, row) /\ e.no = r.no /\ e.status = r.status
    BY DEF Log!Entries, SameTarget
  <1>8. \A r \in attempts : SameTarget(r, row) =>
           \E e \in Log!Entries(row.post, row.channel) : e.no = r.no
    <2> SUFFICES ASSUME NEW r \in attempts, SameTarget(r, row)
                 PROVE  \E e \in Log!Entries(row.post, row.channel) : e.no = r.no
      OBVIOUS
    <2>1. PICK e : e = EntryOf(r)
      OBVIOUS
    <2>2. e \in Entries /\ e.post = row.post /\ e.channel = row.channel /\ e.no = r.no
      BY <2>1 DEF Entries, EntryOf, SameTarget
    <2>3. e \in Log!Entries(row.post, row.channel)
      BY <2>2 DEF Log!Entries, Entries, EntryOf
    <2> QED BY <2>2, <2>3
  <1>9. row.no \in {1} \cup {e.no + 1 : e \in Log!Entries(row.post, row.channel)}
    <2>1. CASE row.no = 1
      BY <2>1
    <2>2. CASE \E r \in attempts : SameTarget(r, row) /\ r.no = row.no - 1
      <3>1. PICK e \in Log!Entries(row.post, row.channel) : e.no = row.no - 1
        BY <1>8, <2>2
      <3> QED BY <1>2, <3>1
    <2> QED BY <1>2, <2>1, <2>2
  <1>10. ASSUME NEW m \in 1 .. row.no - 1
         PROVE  \E e \in Log!Entries(row.post, row.channel) : e.no = m
    <2>1. PICK r \in attempts : SameTarget(r, row) /\ r.no = row.no - 1
      BY <1>2, <1>10
    <2>2. m \in 1 .. r.no
      BY <2>1
    <2>3. PICK q \in attempts : SameTarget(r, q) /\ q.no = m
      BY <2>2 DEF LogInv, AttemptNumbersGapless
    <2> QED BY <1>8, <2>1, <2>3 DEF SameTarget
  <1>11. \A e \in Log!Entries(row.post, row.channel) : e.no < row.no /\ e.status # "sent"
    BY <1>2, <1>7
  <1>12. row.post \in Alive
    BY <1>3, <1>5 DEF Alive
  <1>13. Log!Append(row.post, row.channel, row.no, row.status)
    BY <1>6, <1>10, <1>11, <1>12 DEF Log!Append, Entries, EntryOf, Alive
  <1> QED BY <1>5, <1>9, <1>13 DEF Log!Next

\* A post takes its lists with it.
LEMMA DeleteErases ==
    ASSUME TypeInv, LogInv, NEW w \in Workers, DeleteAfterSend(w)
    PROVE  Log!Next \/ (Entries' = Entries /\ Alive' = Alive)
  <1>1. PICK p \in PostIds : p = workers[w].post.id
    BY DEF TypeInv, InHand, DeleteAfterSend, Snapshot
  <1>2. /\ attempts' = {r \in attempts : r.post # p}
        /\ posts' = [posts EXCEPT ![p] = Null]
    BY <1>1 DEF DeleteAfterSend, DeletePost
  <1>3. Alive' = Alive \ {p}
    BY <1>2 DEF Alive, Exists, TypeInv, TypeOK, StoreTypeOK
  <1>4. CASE Exists(p)
    <2>1. Entries' = {e \in Entries : e.post # p}
      BY <1>2 DEF Entries, EntryOf
    <2>2. Log!Erase(p)
      BY <1>3, <1>4, <2>1 DEF Log!Erase, Entries, EntryOf, Alive
    <2> QED BY <2>2 DEF Log!Next
  <1>5. CASE ~Exists(p)
    <2>1. attempts' = attempts
      BY <1>2, <1>5 DEF LogInv
    <2> QED BY <1>3, <1>5, <2>1 DEF Entries, EntryOf, Alive
  <1> QED BY <1>4, <1>5

\* Whoever races for it, the table of attempts is an append-only list for each
\* post and channel, closed by its first sent attempt and gone with its post.
THEOREM SchedulerImplementsDeliveryLog == Spec => ImplementsDeliveryLog
  <1>1. Init => Log!Init
    BY DEF Init, Log!Init
  <1>2. IInv /\ [Next]_vars => [Log!Next]_<<Alive, Entries>>
    <2> SUFFICES ASSUME IInv, [Next]_vars,
                        ~(Alive' = Alive /\ Entries' = Entries)
                 PROVE  Log!Next
      OBVIOUS
    <2>1. CASE attempts' = attempts /\ \A p \in PostIds : Exists(p)' = Exists(p)
      BY <2>1 DEF Entries, EntryOf, Alive
    <2>2. ASSUME NEW w \in Workers, InsertAttempt(w) PROVE Log!Next
      <3>1. CASE CanInsertAttempt(RowOf(workers[w]))
        BY <2>2, <3>1, InsertAppends DEF IInv
      <3>2. CASE ~CanInsertAttempt(RowOf(workers[w]))
        BY <2>2, <3>2
           DEF InsertAttempt, InsertPublishAttempt, Entries, EntryOf, Alive, Exists
      <3> QED BY <3>1, <3>2
    <2>3. ASSUME NEW w \in Workers, DeleteAfterSend(w) PROVE Log!Next
      BY <2>3, DeleteErases DEF IInv
    <2> QED BY <2>1, <2>2, <2>3, StepsOnTables DEF IInv
  <1> QED BY <1>1, <1>2, LogCorrect, PTL
          DEF Spec, ImplementsDeliveryLog, Log!Spec, Alive, Entries, EntryOf

-------------------------------------------------------------------------------
(***************************************************************************)
(* The fallback publisher and the channels.                                *)
(***************************************************************************)
\* The loop attempts the channels it has loaded, and no others.
Chosen(s) ==
    s.pc \in InLoop =>
        /\ s.todo \subseteq s.eligible
        /\ s.pc # "channels" => s.channel \in s.eligible

\* A post that is still there was published where its channels say.
PlaceInv ==
    /\ \A w \in Workers : Chosen(workers[w])
    /\ \A p \in PostIds : Exists(p) =>
          /\ published[p][Fallback] > 0 => postChannels[p] = {}
          /\ \A c \in ChannelIds : published[p][c] > 0 => c \in postChannels[p]

\* A worker outside the loop has chosen nothing.
LEMMA DoneChosen ==
    ASSUME NEW s \in Worker, NEW failed PROVE Chosen(Done(s, failed)) /\ Chosen(Idle)
  <1>1. Done(s, failed).pc \in {"due", "delete", "idle"} /\ Idle.pc = "idle"
    BY DEF Done, Idle
  <1> QED BY <1>1 DEF Chosen, InLoop

\* Back in the loop, a worker still has what it had chosen from.
LEMMA NextChannelChosen ==
    ASSUME NEW s \in Worker, NEW failed, s.pc \in InLoop, Chosen(s)
    PROVE  Chosen(NextChannel(s, failed))
  <1>1. PICK err : err = (s.err \/ failed)
    OBVIOUS
  <1>2. PICK t : t = [s EXCEPT !.pc = "channels", !.channel = Null, !.no = 0,
                               !.result = Null, !.err = err]
    OBVIOUS
  <1>3. t = NextChannel(s, failed)
    BY <1>1, <1>2 DEF NextChannel
  <1>4. t.pc = "channels" /\ t.todo = s.todo /\ t.eligible = s.eligible
    BY <1>2 DEF Worker
  <1> QED BY <1>3, <1>4 DEF Chosen

\* Every step of a worker stays with the channels that were loaded.
LEMMA WorkerChosen ==
    ASSUME TypeInv, NEW w \in Workers, Chosen(workers[w]),
           RunDue(w) \/ Process(w) \/ Crash(w) \/ StatementFails(w)
    PROVE  Chosen(workers'[w])
  <1>1. PICK s, t : s = workers[w] /\ t = workers'[w]
    OBVIOUS
  <1>2. s \in Worker /\ workers \in [Workers -> Worker]
    BY <1>1 DEF TypeInv, TypeOK
  <1>3. CASE RunDue(w) \/ NextDuePost(w)
    <2>1. PICK batch, x : \/ t = [Idle EXCEPT !.pc = "due", !.batch = batch]
                          \/ t = [Idle EXCEPT !.pc = "load", !.post = x, !.batch = batch]
      BY <1>1, <1>2, <1>3 DEF RunDue, NextDuePost
    <2>2. t.pc \in {"due", "load"}
      BY <2>1 DEF Idle
    <2> QED BY <1>1, <2>2 DEF Chosen, InLoop
  <1>4. CASE LoadChannels(w)
    <2>1. PICK eligible, v :
             \/ t = [s EXCEPT !.pc = "legacy", !.at = now]
             \/ t = [s EXCEPT !.pc = "store", !.at = now, !.err = TRUE, !.verdict = v]
             \/ t = [s EXCEPT !.pc = "channels", !.at = now, !.eligible = eligible,
                              !.todo = eligible]
      BY <1>1, <1>2, <1>4 DEF LoadChannels
    <2>2. \/ t.pc \in {"legacy", "store"}
          \/ t.pc = "channels" /\ t.todo = t.eligible
      BY <1>2, <2>1 DEF Worker
    <2> QED BY <1>1, <2>2 DEF Chosen, InLoop
  <1>5. CASE GetLatest(w)
    <2>1. PICK c \in s.todo :
             \/ t = [s EXCEPT !.todo = s.todo \ {c}]
             \/ \E n : t = [s EXCEPT !.pc = "limit", !.todo = s.todo \ {c},
                                     !.channel = c, !.no = n]
      BY <1>1, <1>2, <1>5 DEF GetLatest
    <2>2. s.pc = "channels" /\ s.todo \subseteq s.eligible
      BY <1>1, <1>5 DEF GetLatest, Chosen, InLoop
    <2>3. /\ t.eligible = s.eligible /\ t.todo = s.todo \ {c}
          /\ t.pc = "channels" \/ (t.pc = "limit" /\ t.channel = c)
      BY <1>2, <2>1, <2>2 DEF Worker
    <2> QED BY <1>1, <2>2, <2>3 DEF Chosen
  <1>6. CASE CheckDailyLimit(w) \/ Publish(w)
    <2>1. PICK result : \/ t = [s EXCEPT !.pc = "insert", !.result = result]
                        \/ t = [s EXCEPT !.pc = "publish"]
      BY <1>1, <1>2, <1>6 DEF CheckDailyLimit, Publish
    <2>2. s.pc \in {"limit", "publish"}
      BY <1>1, <1>6 DEF CheckDailyLimit, Publish
    <2>3. t.channel = s.channel /\ t.eligible = s.eligible /\ t.todo = s.todo
      BY <1>2, <2>1 DEF Worker
    <2> QED BY <1>1, <2>2, <2>3 DEF Chosen, InLoop
  <1>7. CASE InsertAttempt(w)
    <2>1. PICK failed : t = NextChannel(s, failed) /\ s.pc = "insert"
      BY <1>1, <1>2, <1>7 DEF InsertAttempt
    <2> QED BY <1>1, <1>2, <2>1, NextChannelChosen DEF InLoop
  <1>8. CASE Reconcile(w)
    <2>1. PICK v : t = [s EXCEPT !.pc = "store", !.verdict = v]
      BY <1>1, <1>2, <1>8 DEF Reconcile
    <2>2. t.pc = "store"
      BY <1>2, <2>1 DEF Worker
    <2> QED BY <1>1, <2>2 DEF Chosen, InLoop
  <1>9. CASE LegacyPublish(w)
    <2>1. PICK v : \/ t = [s EXCEPT !.pc = "mark"]
                   \/ t = [s EXCEPT !.pc = "store", !.err = TRUE, !.verdict = v]
      BY <1>1, <1>2, <1>9 DEF LegacyPublish
    <2>2. t.pc \in {"mark", "store"}
      BY <1>2, <2>1 DEF Worker
    <2> QED BY <1>1, <2>2 DEF Chosen, InLoop
  <1>10. CASE \/ StorePostState(w) \/ LegacyMarkSent(w) \/ DeleteAfterSend(w) \/ Crash(w)
              \/ StatementFails(w)
    <2>1. PICK failed : \/ t = Done(s, failed) \/ t = Idle
                        \/ t = NextChannel(s, failed) /\ s.pc \in InLoop
      BY <1>1, <1>2, <1>10
         DEF StorePostState, LegacyMarkSent, DeleteAfterSend, Crash, StatementFails, InLoop
    <2> QED BY <1>1, <1>2, <2>1, DoneChosen, NextChannelChosen
  <1> QED BY <1>3, <1>4, <1>5, <1>6, <1>7, <1>8, <1>9, <1>10 DEF Process

\* Only the two publishes reach a target.
LEMMA OthersPublishNothing ==
    ASSUME [Next]_vars
    PROVE  published' = published \/ \E w \in Workers : Publish(w) \/ LegacyPublish(w)
  <1>1. ASSUME NEW w \in Workers, NEW p \in PostIds, Send(w, p) PROVE published' = published
    BY <1>1, SendIsSendNow DEF SendNow
  <1> QED BY <1>1 DEF Next, Process, Tick, vars, RunDue, NextDuePost, LoadChannels, GetLatest,
          CheckDailyLimit, InsertAttempt, Reconcile, StorePostState, LegacyMarkSent,
          DeleteAfterSend, Crash, StatementFails

\* What is published goes to a channel of the post, or to the fallback if it has none.
LEMMA PublishPlaces ==
    ASSUME TypeInv, DeliveryInv, PlaceInv, NEW w \in Workers, Publish(w) \/ LegacyPublish(w),
           NEW p \in PostIds, NEW u \in Targets, Exists(p), published'[p][u] > 0
    PROVE  published[p][u] > 0 \/ (IF u = Fallback THEN postChannels[p] = {}
                                                   ELSE u \in postChannels[p])
  <1>1. PICK s \in Worker : s = workers[w]
    BY DEF TypeInv, TypeOK
  <1>2. PICK q \in PostIds, v \in Targets, o \in Outcomes :
           /\ Deliver(q, v, o) /\ q = s.post.id
           /\ \/ Publish(w) /\ v = s.channel
              \/ LegacyPublish(w) /\ v = Fallback
    <2>1. s.post.id \in PostIds
      BY <1>1 DEF TypeInv, InHand, Snapshot, Publish, LegacyPublish
    <2>2. CASE Publish(w)
      <3>1. s.channel \in Targets
        BY <1>1, <2>2 DEF TypeInv, InHand, Targets, Publish
      <3> QED BY <1>1, <2>1, <2>2, <3>1 DEF Publish
    <2>3. CASE LegacyPublish(w)
      <3>1. Fallback \in Targets
        BY DEF Targets
      <3> QED BY <1>1, <2>1, <2>3, <3>1 DEF LegacyPublish
    <2> QED BY <2>2, <2>3
  <1>3. CASE published'[p][u] = published[p][u]
    BY <1>3
  <1>4. CASE published'[p][u] # published[p][u]
    <2>1. p = q /\ u = v
      BY <1>2, <1>4 DEF Deliver, TypeInv, TypeOK
    <2>2. DeliveryInHand(s) /\ Chosen(s)
      BY <1>1 DEF DeliveryInv, PlaceInv
    <2>3. CASE Publish(w) /\ v = s.channel
      <3>1. s.pc = "publish"
        BY <1>1, <2>3 DEF Publish
      <3>2. s.eligible = Eligible(p) /\ s.channel \in s.eligible
        BY <1>2, <2>1, <2>2, <3>1 DEF DeliveryInHand, InLoop, Chosen
      <3>3. u \in postChannels[p] /\ u \in ChannelIds
        BY <1>1, <2>1, <2>3, <3>1, <3>2 DEF Eligible, TypeInv, InHand
      <3> QED BY <3>3, FallbackAssumption
    <2>4. CASE LegacyPublish(w) /\ v = Fallback
      <3>1. s.pc = "legacy"
        BY <1>1, <2>4 DEF LegacyPublish
      <3>2. postChannels[p] = {}
        BY <1>2, <2>1, <2>2, <3>1 DEF DeliveryInHand, InLoop
      <3> QED BY <2>1, <2>4, <3>2
    <2> QED BY <1>2, <2>3, <2>4
  <1> QED BY <1>3, <1>4

\* Every step leaves it at that.
LEMMA NextPlaces == TypeInv /\ DeliveryInv /\ PlaceInv /\ [Next]_vars => PlaceInv'
  <1> SUFFICES ASSUME TypeInv, DeliveryInv, PlaceInv, [Next]_vars PROVE PlaceInv'
    OBVIOUS
  <1>1. ASSUME NEW w \in Workers PROVE Chosen(workers'[w])
    <2>1. Chosen(workers[w])
      BY DEF PlaceInv
    <2>2. CASE Tick \/ UNCHANGED vars
      BY <2>1, <2>2 DEF Tick, vars
    <2>3. ASSUME NEW v \in Workers, RunDue(v) \/ Process(v) \/ Crash(v) \/ StatementFails(v)
          PROVE  Chosen(workers'[w])
      <3>1. CASE v = w
        BY <2>1, <2>3, <3>1, WorkerChosen
      <3>2. CASE v # w
        <4>1. workers'[w] = workers[w]
          BY <2>3, <3>2, StepOfOne
        <4> QED BY <2>1, <4>1
      <3> QED BY <3>1, <3>2
    <2>4. ASSUME NEW v \in Workers, NEW p \in PostIds, Send(v, p) PROVE Chosen(workers'[w])
      <3>1. PICK del \in BOOLEAN : SendNow(v, p, del)
        BY <2>4, SendIsSendNow
      <3>2. CASE v = w
        <4>1. PICK x : workers' = [workers EXCEPT ![v] =
                          [Idle EXCEPT !.pc = "load", !.post = x, !.force = TRUE,
                                       !.deleteAfter = del]]
          BY <3>1 DEF SendNow
        <4>2. workers'[w].pc = "load"
          BY <3>2, <4>1 DEF TypeInv, TypeOK, Idle
        <4> QED BY <4>2 DEF Chosen, InLoop
      <3>3. CASE v # w
        <4>1. workers'[w] = workers[w]
          BY <3>1, <3>3, StepOfOne
        <4> QED BY <2>1, <4>1
      <3> QED BY <3>2, <3>3
    <2> QED BY <2>2, <2>3, <2>4 DEF Next
  <1>2. ASSUME NEW p \in PostIds, Exists(p)'
        PROVE  /\ published'[p][Fallback] > 0 => postChannels'[p] = {}
               /\ \A c \in ChannelIds : published'[p][c] > 0 => c \in postChannels'[p]
    <2>1. Exists(p) /\ postChannels'[p] = postChannels[p]
      BY <1>2, NextGrows, PostKept
    <2>2. ASSUME NEW u \in Targets, published'[p][u] > 0
          PROVE  published[p][u] > 0 \/ (IF u = Fallback THEN postChannels[p] = {}
                                                         ELSE u \in postChannels[p])
      BY <2>1, <2>2, OthersPublishNothing, PublishPlaces
    <2> QED BY <2>1, <2>2, FallbackAssumption DEF PlaceInv, Targets
  <1> QED BY <1>1, <1>2 DEF PlaceInv

\* At first nothing is published.
LEMMA InitPlaces == Init => PlaceInv
  <1> SUFFICES ASSUME Init PROVE PlaceInv
    OBVIOUS
  <1>1. \A w \in Workers : Chosen(workers[w])
    BY DEF Init, Idle, Chosen, InLoop
  <1>2. \A p \in PostIds, u \in Targets : published[p][u] = 0
    BY DEF Init
  <1> QED BY <1>1, <1>2 DEF PlaceInv, Targets

\* As long as a post is there it is published to channels it has or, if it has
\* none, to the fallback: with nobody changing assignments, for any number of
\* workers, only a post that is deleted while it waits in a batch goes to both.
THEOREM FallbackNeedsDeletion ==
    Spec => [](\A p \in PostIds :
                  Exists(p) /\ published[p][Fallback] > 0 =>
                      \A c \in ChannelIds : published[p][c] = 0)
  <1>1. IInv /\ DeliveryInv /\ PlaceInv /\ [Next]_vars => PlaceInv'
    BY NextPlaces DEF IInv
  <1>2. IInv /\ PlaceInv =>
           \A p \in PostIds :
              Exists(p) /\ published[p][Fallback] > 0 =>
                  \A c \in ChannelIds : published[p][c] = 0
    <2> SUFFICES ASSUME IInv, PlaceInv, NEW p \in PostIds, NEW c \in ChannelIds,
                        Exists(p), published[p][Fallback] > 0
                 PROVE  published[p][c] = 0
      OBVIOUS
    <2>1. published[p][c] \in Nat /\ ~(published[p][c] > 0)
      BY DEF PlaceInv, IInv, TypeInv, TypeOK, Targets
    <2> QED BY <2>1
  <1> QED BY <1>1, <1>2, InitPlaces, DeliveryCorrect, PTL DEF Spec
===============================================================================
