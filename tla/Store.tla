--------------------------------- MODULE Store ---------------------------------
(***************************************************************************)
(* The SQLite tables the publishing path reads and writes (internal/db),   *)
(* the clock, and the statements on them.  A statement is atomic; two      *)
(* statements of one handler are not, so every statement is used in a step *)
(* of its own.  Columns that are only displayed (text, media, sent_at,     *)
(* last_error, external_id, timestamps of edits) are left out.             *)
(***************************************************************************)
EXTENDS RetryPolicy, FiniteSets

CONSTANTS
    PostIds,    \* ids AUTOINCREMENT may hand out: an id is never used twice
    ChannelIds  \* likewise for channels

ASSUME IdsAssumption == PostIds \subseteq Nat /\ ChannelIds \subseteq Nat

VARIABLES
    now,           \* the clock all processes read
    posts,         \* table posts: a row, or Null when there is no such row
    postChannels,  \* table post_channels: the channels assigned to a post
    channels,      \* table channels: the status column, or Null
    attempts       \* table publish_attempts: a set of rows

storeVars == <<now, posts, postChannels, channels, attempts>>

PostStatus == {"draft", "scheduled", "sent", "failed"}
ChannelStatus == {"active", "error", "disabled"}
AttemptStatus == {"sent", "retry", "failed"}

PostRow ==
    [status           : PostStatus,
     scheduledAt      : MaybeMoments,
     nextRetryAt      : MaybeMoments,
     failCount        : Nat,
     approvalPending  : BOOLEAN,
     planningApproved : BOOLEAN]

ASSUME NoRowAssumption == Null \notin PostRow
ASSUME NoStatusAssumption == Null \notin ChannelStatus

AttemptRow ==
    [post    : PostIds,
     channel : ChannelIds,
     no      : Nat \ {0},
     at      : Moments,
     status  : AttemptStatus,
     retryAt : MaybeMoments]

StoreTypeOK ==
    /\ now \in Moments
    /\ posts \in [PostIds -> PostRow \cup {Null}]
    /\ postChannels \in [PostIds -> SUBSET ChannelIds]
    /\ channels \in [ChannelIds -> ChannelStatus \cup {Null}]
    /\ attempts \subseteq AttemptRow
    /\ IsFiniteSet(attempts)

-------------------------------------------------------------------------------
(***************************************************************************)
(* Queries.                                                                *)
(***************************************************************************)
Exists(p) == posts[p] # Null

\* COALESCE(next_retry_at, scheduled_at): when the scheduler looks at the post.
Wake(p) ==
    IF posts[p].nextRetryAt # Null THEN posts[p].nextRetryAt
                                   ELSE posts[p].scheduledAt

\* Mutant: a post is due only after its moment has passed.
IsDueStrictly(p, t) ==
    /\ Exists(p)
    /\ posts[p].status = "scheduled"
    /\ ~posts[p].approvalPending
    /\ Wake(p) # Null
    /\ Wake(p) < t

\* The WHERE clause of ListDuePosts at moment t.
IsDue(p, t) ==
    /\ Exists(p)
    /\ posts[p].status = "scheduled"
    /\ ~posts[p].approvalPending
    /\ Wake(p) # Null
    /\ Wake(p) <= t

DuePosts(t) == {p \in PostIds : IsDue(p, t)}

\* ORDER BY COALESCE(next_retry_at, scheduled_at), id.
WakesBefore(p, q) == Wake(p) < Wake(q) \/ (Wake(p) = Wake(q) /\ p < q)

AttemptsOf(p, c) == {r \in attempts : r.post = p /\ r.channel = c}

SameTarget(r, s) == r.post = s.post /\ r.channel = s.channel

\* The row ORDER BY attempt_no DESC LIMIT 1 (or MAX(attempt_no)) returns.
IsLatest(r) ==
    /\ r \in attempts
    /\ \A s \in attempts : SameTarget(r, s) => s.no <= r.no

LatestIs(p, c, status) ==
    \E r \in AttemptsOf(p, c) : IsLatest(r) /\ r.status = status

\* CountSentPublishAttemptsForChannelBetween over the day of moment t.
SentToday(c, t) ==
    {r \in attempts : /\ r.channel = c
                      /\ r.status = "sent"
                      /\ DayOf(r.at) = DayOf(t)}

-------------------------------------------------------------------------------
(***************************************************************************)
(* Statements.  Those keyed by a post id change nothing when the row is    *)
(* gone (RowsAffected = 0, ErrNotFound).                                   *)
(***************************************************************************)
\* SetPostState and RecordFailure: unconditional on the row's present state.
SetPostState(p, status, failCount, nextRetryAt) ==
    posts' = IF Exists(p)
             THEN [posts EXCEPT ![p] = [posts[p] EXCEPT
                                          !.status = status,
                                          !.failCount = failCount,
                                          !.nextRetryAt = nextRetryAt]]
             ELSE posts

\* MarkSent leaves fail_count alone.
MarkSent(p) ==
    posts' = IF Exists(p)
             THEN [posts EXCEPT ![p] = [posts[p] EXCEPT
                                          !.status = "sent",
                                          !.nextRetryAt = Null]]
             ELSE posts

\* Mutant: the table without its UNIQUE constraint.
CanInsertAnyNumber(row) == Exists(row.post) /\ channels[row.channel] # Null

\* The foreign keys and UNIQUE(post_id, channel_id, attempt_no).
CanInsertAttempt(row) ==
    /\ Exists(row.post)
    /\ channels[row.channel] # Null
    /\ \A r \in attempts : SameTarget(r, row) => r.no # row.no

\* Mutant: INSERT OR REPLACE.
ReplacePublishAttempt(row) ==
    attempts' = {r \in attempts : ~SameTarget(r, row) \/ r.no # row.no} \cup
                {r \in {row} : CanInsertAnyNumber(r)}

\* InsertPublishAttempt: the row is stored, or the statement fails.
InsertPublishAttempt(row) ==
    attempts' = IF CanInsertAttempt(row) THEN attempts \cup {row} ELSE attempts

\* DELETE FROM posts cascades to the assignments and to the attempts.
DeletePost(p) ==
    /\ posts' = [posts EXCEPT ![p] = Null]
    /\ postChannels' = [postChannels EXCEPT ![p] = {}]
    /\ attempts' = {r \in attempts : r.post # p}
================================================================================
